---- MODULE Spec2Model ----
(***************************************************************************)
(* A model of the retrieval-augmented-generation core of notebookllm:      *)
(* the chunking engine (lib/document-processor.ts), the extraction         *)
(* dispatcher (lib/document-processor.ts), query decomposition             *)
(* (lib/gemini.ts), the chat turn (app/api/chat/route.ts), the retrieval   *)
(* engine (lib/embeddings.ts) and the hybrid search SQL function.          *)
(*                                                                         *)
(* Each component has its own specification (SpecChunk, ...) over the      *)
(* shared variables; a component that a specification does not exercise    *)
(* stays in its idle state.                                                *)
(***************************************************************************)
EXTENDS Integers, Sequences, FiniteSets, TLC

VARIABLES
    \* chunkText (lib/document-processor.ts)
    text, maxLength, overlap, start, chunks, windows, chunkResult, cpc,
    \* the datastore: tables documents and document_embeddings
    documents, document_embeddings,
    \* one call of the SQL function search_documents
    similarity, user_id, match_threshold, match_count, keyword_query,
    searchOut, spc,
    \* decomposeQuery (lib/gemini.ts) inside one chat turn
    message, attempt, responseText, decomposedQueries, dqpc,
    \* POST /api/chat (app/api/chat/route.ts)
    relevantDocuments, queryIndex, documentChunks, sources, chatpc,
    \* extractTextFromFile (lib/document-processor.ts)
    file, extracted, expc,
    \* generateEmbedding and its retryWithBackoff (lib/embeddings.ts)
    etext, ei, ecalls, estatuses, eresponse, eresult, epc,
    \* generateChatResponse and its retryWithBackoff (lib/gemini.ts)
    gi, gcalls, gstatuses, gresponse, gerror, greply, gpc,
    \* one call of searchSimilarDocuments (lib/embeddings.ts)
    searchCall, searchResult, searchpc,
    \* POST /api/documents/upload (app/api/documents/upload/route.ts)
    upFile, columnDim, extractedText, upDocument, upChunks, upIndex,
    upEmbeddings, upStored, upError, upResponse, uppc,
    \* DELETE /api/documents (app/api/documents/route.ts)
    delUser, delDocument, delResponse, delpc,
    \* the credential check at the head of every route
    route, request, verified, effects, authResponse, authpc

chunkVars == <<text, maxLength, overlap, start, chunks, windows, chunkResult, cpc>>
storeVars == <<documents, document_embeddings>>
sqlVars == <<similarity, user_id, match_threshold, match_count, keyword_query,
             searchOut, spc>>

dqVars == <<message, attempt, responseText, decomposedQueries, dqpc>>
chatVars == <<relevantDocuments, queryIndex, documentChunks, sources, chatpc>>

extractVars == <<file, extracted, expc>>

embedVars == <<etext, ei, ecalls, estatuses, eresponse, eresult, epc>>
genVars == <<gi, gcalls, gstatuses, gresponse, gerror, greply, gpc>>
searchVars == <<searchCall, searchResult, searchpc>>
uploadVars == <<upFile, columnDim, extractedText, upDocument, upChunks, upIndex,
                upEmbeddings, upStored, upError, upResponse, uppc>>
deleteVars == <<delUser, delDocument, delResponse, delpc>>
authVars == <<route, request, verified, effects, authResponse, authpc>>

\* The variables of the components added after the chat turn.
serviceVars == <<embedVars, genVars, searchVars, uploadVars, authVars, deleteVars>>

vars == <<chunkVars, storeVars, sqlVars, dqVars, chatVars, extractVars,
          serviceVars>>

Min(a, b) == IF a <= b THEN a ELSE b
Max(a, b) == IF a >= b THEN a ELSE b

Last(s) == s[Len(s)]

\* All sequences over S of length 0..n.
SeqsUpTo(S, n) == UNION {[1..k -> S] : k \in 0..n}

(***************************************************************************)
(* The datastore: tables documents and document_embeddings (schema.sql).   *)
(* Text is a sequence of one-character strings; a similarity is a cosine   *)
(* similarity in hundredths (0.7 is 70).                                   *)
(***************************************************************************)

Users == {"u1", "u2"}

\* create table documents (id, user_id, ..., created_at)
StoredDocuments ==
    { [id |-> "d1", user_id |-> "u1", created_at |-> 1],
      [id |-> "d2", user_id |-> "u1", created_at |-> 2],
      [id |-> "d3", user_id |-> "u2", created_at |-> 3] }

\* create table document_embeddings (id, document_id, content, ...): rows 1
\* and 2 are two chunks of one document with the same content, row 4 has
\* that content in another document, row 5 belongs to another user.
StoredEmbeddings ==
    { [id |-> 1, document_id |-> "d1", content |-> <<"a", "b">>],
      [id |-> 2, document_id |-> "d1", content |-> <<"a", "b">>],
      [id |-> 3, document_id |-> "d1", content |-> <<"B", "a">>],
      [id |-> 4, document_id |-> "d2", content |-> <<"a", "b">>],
      [id |-> 5, document_id |-> "d3", content |-> <<"a", "b">>] }

StoreInit ==
    /\ documents = StoredDocuments
    /\ document_embeddings = StoredEmbeddings

\* join documents d on d.id = de.document_id where d.user_id = user_id
OwnedEmbeddings(uid) ==
    { de \in document_embeddings :
        \E d \in documents : d.id = de.document_id /\ d.user_id = uid }

(***************************************************************************)
(* Hybrid search: the SQL function search_documents (hybrid version).      *)
(***************************************************************************)

\* Bound of the explored match_count.
MaxMatchCount == 3

\* 0.7 as similarity: the nominal similarity of a keyword match.
KeywordSimilarity == 70

\* The cosine similarities (in hundredths) the explored chunks may have.
SimValues == {0, 50, 70, 90}

NullText == [isNull |-> TRUE, s |-> <<>>]
TextOf(s) == [isNull |-> FALSE, s |-> s]

Keywords ==
    { NullText, TextOf(<<>>), TextOf(<<"A", "B">>), TextOf(<<"b">>),
      TextOf(<<"z">>) }

Lower(c) == CASE c = "A" -> "a" [] c = "B" -> "b" [] OTHER -> c

\* content ilike '%' || keyword || '%': keyword occurs in content, letter
\* case ignored; _ in the keyword stands for any one character.
ILikeContains(content, kw) ==
    \E i \in 0..(Len(content) - Len(kw)) :
        \A j \in 1..Len(kw) :
            kw[j] = "_" \/ Lower(content[i + j]) = Lower(kw[j])

\* A variant of the ordering: order by similarity asc.
SimilarityAscBefore(a, b) ==
    \/ a.similarity < b.similarity
    \/ a.similarity = b.similarity /\ a.id < b.id

\* order by similarity desc (rows of equal similarity in id order)
SimilarityDescBefore(a, b) ==
    \/ a.similarity > b.similarity
    \/ a.similarity = b.similarity /\ a.id < b.id

\* The rows of S as a sequence, ordered by Before.
OrderBy(S, Before(_, _)) ==
    [i \in 1..Cardinality(S) |->
        CHOOSE x \in S : Cardinality({y \in S : Before(y, x)}) = i - 1]

IdBefore(a, b) ==
    \/ a.id < b.id
    \/ a.id = b.id /\ a.similarity > b.similarity

\* limit n
Limit(rows, n) == SubSeq(rows, 1, Min(n, Len(rows)))

SeqToSet(s) == {s[i] : i \in 1..Len(s)}

ResultRow(de, sim) ==
    [id |-> de.id, document_id |-> de.document_id, content |-> de.content,
     similarity |-> sim]

\* with vector_search as (... where similarity > match_threshold
\*   order by de.embedding <=> query_embedding limit match_count)
vector_search(sim, uid, threshold, n) ==
    Limit(OrderBy({ ResultRow(de, sim[de.id]) :
                      de \in { x \in OwnedEmbeddings(uid) : sim[x.id] > threshold } },
                  SimilarityDescBefore), n)

\* keyword_search as (... where keyword_query is not null and keyword_query != ''
\*   and de.content ilike '%' || keyword_query || '%' limit match_count)
keyword_search(uid, n, kw) ==
    Limit(OrderBy({ ResultRow(de, KeywordSimilarity) :
                      de \in { x \in OwnedEmbeddings(uid) :
                                 /\ ~kw.isNull
                                 /\ kw.s # <<>>
                                 /\ ILikeContains(x.content, kw.s) } },
                  IdBefore), n)

\* select ... from vector_search union select ... from keyword_search:
\* union removes rows that are equal in every column.
combined_results(sim, uid, threshold, n, kw) ==
    SeqToSet(vector_search(sim, uid, threshold, n))
        \cup SeqToSet(keyword_search(uid, n, kw))

\* select ... from (...) combined_results order by similarity desc limit match_count
search_documents(sim, uid, threshold, n, kw) ==
    Limit(OrderBy(combined_results(sim, uid, threshold, n, kw),
                  SimilarityDescBefore), n)

EmbeddingIds == {de.id : de \in StoredEmbeddings}

\* The arguments of one call: any similarity of each stored chunk to the
\* query embedding, either user, a small match_count, a keyword or none.
SqlInit ==
    /\ similarity \in [EmbeddingIds -> SimValues]
    /\ user_id \in Users
    /\ match_threshold = 0
    /\ match_count \in 1..MaxMatchCount
    /\ keyword_query \in Keywords
    /\ searchOut = <<>>
    /\ spc = "call"

\* search_documents is not running.
SqlIdle ==
    /\ similarity = [i \in EmbeddingIds |-> 0]
    /\ user_id = "u1"
    /\ match_threshold = 0
    /\ match_count = 1
    /\ keyword_query = NullText
    /\ searchOut = <<>>
    /\ spc = "idle"

\* The function runs its one statement and returns the rows.
SqlSearch ==
    /\ spc = "call"
    /\ searchOut' = search_documents(similarity, user_id, match_threshold,
                                     match_count, keyword_query)
    /\ spc' = "done"
    /\ UNCHANGED <<similarity, user_id, match_threshold, match_count, keyword_query>>
    /\ UNCHANGED <<chunkVars, storeVars, dqVars, chatVars, extractVars>>
    /\ UNCHANGED serviceVars

SqlNext == SqlSearch

(***************************************************************************)
(* retryWithBackoff and decomposeQuery (lib/gemini.ts).                    *)
(* The text of a model response is a sequence of tokens: FENCE_JSON is the *)
(* opening code fence with its language tag and line break, FENCE_END the  *)
(* line break and closing fence, FENCE_PLAIN an opening fence without tag, *)
(* str:q a JSON string literal.                                            *)
(***************************************************************************)

\* maxRetries: number = 3
MaxRetries == 3

Queries == {"q0", "q1"}

\* The statuses a failed provider call may carry; 0 stands for an error
\* without a status.
ErrorStatuses == {0, 400, 429, 500, 503}

StringTokens == {"str:q0", "str:q1", "str:q2"}

Unquote(tok) ==
    CASE tok = "str:q0" -> "q0"
      [] tok = "str:q1" -> "q1"
      [] tok = "str:q2" -> "q2"

\* The response texts explored: JSON arrays of strings (bare, fenced, padded,
\* empty, with a repeated element), JSON values that are no array, and text
\* that is no JSON.
ResponseTexts ==
    { <<"[", "str:q1", ",", "str:q2", "]">>,
      <<"FENCE_JSON", "[", "str:q1", ",", "str:q2", "]", "FENCE_END">>,
      <<"[", "str:q1", ",", "str:q2", ",", "str:q0", "]">>,
      <<"[", "str:q1", ",", "str:q1", "]">>,
      <<" ", "[", "str:q0", "]", " ">>,
      <<"[", "str:q2", "]">>,
      <<"[", "]">>,
      <<"FENCE_JSON", "[", "]", "FENCE_END">>,
      <<"FENCE_PLAIN", "[", "str:q1", "]", "FENCE_END">>,
      <<"{}">>,
      <<"null">>,
      <<"str:q1">>,
      <<"Sure:", "[", "str:q1", "]">>,
      <<"[", "str:q1", ",", "]">>,
      <<>> }

\* What a provider call may give: text, or a response whose text() throws.
Responses ==
    {[blocked |-> FALSE, tokens |-> t] : t \in ResponseTexts}
        \cup {[blocked |-> TRUE, tokens |-> <<>>]}

NoResponse == [blocked |-> FALSE, tokens |-> <<"(none)">>]

\* if (i === maxRetries - 1) throw error; retry on 503, 429 and 500 only
ShouldRetry(i, status) ==
    /\ i # MaxRetries - 1
    /\ status \in {503, 429, 500}

RECURSIVE TrimLeft(_)
TrimLeft(s) ==
    IF s # <<>> /\ s[1] = " " THEN TrimLeft(Tail(s)) ELSE s

RECURSIVE TrimRight(_)
TrimRight(s) ==
    IF s # <<>> /\ Last(s) = " " THEN TrimRight(SubSeq(s, 1, Len(s) - 1)) ELSE s

\* String.prototype.trim()
Trim(s) == TrimLeft(TrimRight(s))

\* responseText.replace(/^(fence)json\n|\n(fence)$/g, '')
StripCodeFence(s) ==
    LET a == IF s # <<>> /\ s[1] = "FENCE_JSON" THEN Tail(s) ELSE s
    IN  IF a # <<>> /\ Last(a) = "FENCE_END" THEN SubSeq(a, 1, Len(a) - 1) ELSE a

\* JSON.parse on the token language of ResponseTexts: an array of string
\* literals, one of the values {} null "..", or a SyntaxError.
ParseJSON(s) ==
    LET t == SelectSeq(s, LAMBDA tok : tok # " ")
        inner == SubSeq(t, 2, Len(t) - 1)
    IN  IF Len(t) = 1 /\ t[1] \in StringTokens
            THEN [kind |-> "string", items |-> <<>>]
        ELSE IF t = <<"null">> THEN [kind |-> "null", items |-> <<>>]
        ELSE IF t = <<"{}">> THEN [kind |-> "object", items |-> <<>>]
        ELSE IF Len(t) >= 2 /\ t[1] = "[" /\ Last(t) = "]"
            THEN IF inner = <<>> THEN [kind |-> "array", items |-> <<>>]
                 ELSE IF /\ Len(inner) % 2 = 1
                         /\ \A i \in DOMAIN inner :
                               IF i % 2 = 1 THEN inner[i] \in StringTokens
                                            ELSE inner[i] = ","
                     THEN [kind |-> "array",
                           items |-> [k \in 1..((Len(inner) + 1) \div 2) |->
                                         Unquote(inner[2 * k - 1])]]
                     ELSE [kind |-> "error", items |-> <<>>]
        ELSE [kind |-> "error", items |-> <<>>]

\* const cleanedResponseText = responseText.replace(...).trim()
CleanedResponseText(tokens) == Trim(StripCodeFence(Trim(tokens)))

\* try { JSON.parse; if (!Array.isArray) throw } catch { decomposedQueries = [query] }
ParsedOrFallback(tokens, query) ==
    LET parsed == ParseJSON(CleanedResponseText(tokens))
    IN  IF parsed.kind = "array" THEN parsed.items ELSE <<query>>

\* A variant without the check for an empty list.
EnsureNonEmptyMissing(list, query) == list

\* if (decomposedQueries.length === 0) decomposedQueries.push(query)
EnsureNonEmpty(list, query) ==
    IF Len(list) = 0 THEN Append(list, query) ELSE list

\* A variant of the catch that returns [].
CatchFallbackEmpty(query) == <<>>

\* catch (error) { return [query] }
CatchFallback(query) == <<query>>

DqInit ==
    /\ message \in Queries
    /\ attempt = 0
    /\ responseText = NoResponse
    /\ decomposedQueries = <<>>
    /\ dqpc = "call"

\* decomposeQuery is not running.
DqIdle ==
    /\ message = "q0"
    /\ attempt = 0
    /\ responseText = NoResponse
    /\ decomposedQueries = <<>>
    /\ dqpc = "idle"

\* retryWithBackoff: fn() resolves, the loop returns its result.
DqCallSucceeds ==
    /\ dqpc = "call"
    /\ \E r \in Responses : responseText' = r
    /\ dqpc' = "parse"
    /\ UNCHANGED <<message, attempt, decomposedQueries>>
    /\ UNCHANGED <<chunkVars, storeVars, sqlVars, chatVars, extractVars>>
    /\ UNCHANGED serviceVars

\* retryWithBackoff: fn() rejects; wait and try again, or rethrow into the
\* catch of decomposeQuery.
DqCallFails ==
    /\ dqpc = "call"
    /\ \E status \in ErrorStatuses :
          IF ShouldRetry(attempt, status)
             THEN /\ attempt' = attempt + 1
                  /\ dqpc' = "call"
             ELSE /\ attempt' = attempt
                  /\ dqpc' = "catch"
    /\ UNCHANGED <<message, responseText, decomposedQueries>>
    /\ UNCHANGED <<chunkVars, storeVars, sqlVars, chatVars, extractVars>>
    /\ UNCHANGED serviceVars

\* result.response.text() throws (a blocked response).
DqTextThrows ==
    /\ dqpc = "parse"
    /\ responseText.blocked
    /\ dqpc' = "catch"
    /\ UNCHANGED <<message, attempt, responseText, decomposedQueries>>
    /\ UNCHANGED <<chunkVars, storeVars, sqlVars, chatVars, extractVars>>
    /\ UNCHANGED serviceVars

\* Clean the text, parse it, fall back to [query], return.
DqParse ==
    /\ dqpc = "parse"
    /\ ~responseText.blocked
    /\ decomposedQueries' =
          EnsureNonEmpty(ParsedOrFallback(responseText.tokens, message), message)
    /\ dqpc' = "done"
    /\ UNCHANGED <<message, attempt, responseText>>
    /\ UNCHANGED <<chunkVars, storeVars, sqlVars, chatVars, extractVars>>
    /\ UNCHANGED serviceVars

\* The outer catch of decomposeQuery.
DqCatch ==
    /\ dqpc = "catch"
    /\ decomposedQueries' = CatchFallback(message)
    /\ dqpc' = "done"
    /\ UNCHANGED <<message, attempt, responseText>>
    /\ UNCHANGED <<chunkVars, storeVars, sqlVars, chatVars, extractVars>>
    /\ UNCHANGED serviceVars

DqNext == DqCallSucceeds \/ DqCallFails \/ DqTextThrows \/ DqParse \/ DqCatch

(***************************************************************************)
(* searchSimilarDocuments (lib/embeddings.ts).  Each datastore call ends   *)
(* in one of three ways: it resolves with rows, it resolves with an error  *)
(* object, or its promise rejects.                                         *)
(***************************************************************************)

DbOutcomes == {"rows", "error", "reject"}

\* similarity: 0.5, the mock similarity of a fallback row.
MockSimilarity == 50

\* .limit(5) of the preliminary query for the user's embeddings.
CheckLimit == 5

TableIdBefore(a, b) == a.id < b.id

CreatedAt(de) == (CHOOSE d \in documents : d.id = de.document_id).created_at

\* .order("documents.created_at", { ascending: false })
RecentBefore(a, b) ==
    \/ CreatedAt(a) > CreatedAt(b)
    \/ CreatedAt(a) = CreatedAt(b) /\ a.id < b.id

\* from("document_embeddings").select(..., documents!inner(...))
\*   .eq("documents.user_id", userId).limit(5)
UserEmbeddings(uid) ==
    Limit(OrderBy(OwnedEmbeddings(uid), TableIdBefore), CheckLimit)

\* ... .order("documents.created_at", { ascending: false }).limit(limit)
RecentEmbeddings(uid, limit) ==
    Limit(OrderBy(OwnedEmbeddings(uid), RecentBefore), limit)

\* rows.map(embedding => ({ id, document_id, content, metadata, similarity: 0.5 }))
WithMockSimilarity(rows) ==
    [i \in DOMAIN rows |-> ResultRow(rows[i], MockSimilarity)]

Returned(rows) == [raised |-> FALSE, rows |-> rows]
Raised == [raised |-> TRUE, rows |-> <<>>]

\* The catch block: the recent embeddings of the user, [] when that query
\* reports an error; a rejection of that query leaves the function.
SearchCatch(uid, limit, fallback) ==
    CASE fallback = "reject" -> Raised
      [] fallback = "error" -> Returned(<<>>)
      [] fallback = "rows" -> Returned(WithMockSimilarity(RecentEmbeddings(uid, limit)))

\* searchSimilarDocuments(query, userId, limit, keyword), given how its
\* three datastore calls end and the cosine similarities sim of the stored
\* chunks to the query embedding.  generateEmbedding never throws.
searchSimilarDocuments(uid, limit, kw, sim, check, rpc, fallback) ==
    LET hasUserEmbeddings == check = "rows"
        userEmbeddings == IF hasUserEmbeddings THEN UserEmbeddings(uid) ELSE <<>>
        data == search_documents(sim, uid, 0, limit, kw)
    IN  IF check = "reject" \/ rpc = "reject"
            THEN SearchCatch(uid, limit, fallback)
        ELSE IF rpc = "error"
            THEN Returned(WithMockSimilarity(userEmbeddings))
        ELSE IF Len(data) = 0 /\ hasUserEmbeddings /\ Len(userEmbeddings) > 0
            THEN Returned(WithMockSimilarity(userEmbeddings))
        ELSE Returned(data)

(***************************************************************************)
(* POST /api/chat (app/api/chat/route.ts), after the token was verified.   *)
(***************************************************************************)

\* searchSimilarDocuments(query, user.id, 5)
ChatSearchLimit == 5

ChatUser == "u1"

\* The stored chunks with a positive cosine similarity to a sub-query: the
\* explored choices (every other chunk has similarity 0).
ChatMatchSets == {{}, {1}, {1, 2}, {2, 4}, {3, 4}}

ChatSimilarities ==
    {[i \in EmbeddingIds |-> IF i \in m THEN 90 ELSE 0] : m \in ChatMatchSets}

\* The words of a question: "q0" is the phrase "Ba", which occurs verbatim
\* in chunk 3 and in no other stored chunk; the other questions occur in
\* none.
QueryText(q) == IF q = "q0" THEN <<"B", "a">> ELSE <<"q">>

\* searchSimilarDocuments(query, user.id, 5): the route passes no fourth
\* argument, so keyword is undefined and keyword_query is null.
ChatKeyword(query) == NullText

SameChunk(d, doc) == d.document_id = doc.document_id /\ d.content = doc.content

\* self.findIndex(d => d.document_id === doc.document_id && d.content === doc.content)
FindIndex(self, doc) ==
    CHOOSE i \in DOMAIN self :
        /\ SameChunk(self[i], doc)
        /\ \A j \in 1..(i - 1) : ~SameChunk(self[j], doc)

\* index === self.findIndex(...)
IsFirstOccurrence(self, index) == index = FindIndex(self, self[index])

\* relevantDocuments.filter((doc, index, self) => index === self.findIndex(...))
RemoveDuplicates(docs) ==
    LET kept == {i \in DOMAIN docs : IsFirstOccurrence(docs, i)}
    IN  [k \in 1..Cardinality(kept) |->
            docs[CHOOSE i \in kept : Cardinality({j \in kept : j < i}) = k - 1]]

\* doc.content.substring(0, 200) + "..."
ContentPreview(content) ==
    SubSeq(content, 1, Min(200, Len(content))) \o <<".", ".", ".">>

ChatInit ==
    /\ relevantDocuments = <<>>
    /\ queryIndex = 1
    /\ documentChunks = <<>>
    /\ sources = <<>>
    /\ chatpc = "decompose"

\* No chat turn is running.
ChatIdle ==
    /\ relevantDocuments = <<>>
    /\ queryIndex = 1
    /\ documentChunks = <<>>
    /\ sources = <<>>
    /\ chatpc = "idle"

\* decomposedQueries = await decomposeQuery(message) has returned.
ChatDecomposed ==
    /\ chatpc = "decompose"
    /\ dqpc = "done"
    /\ chatpc' = "search"
    /\ UNCHANGED <<relevantDocuments, queryIndex, documentChunks, sources>>
    /\ UNCHANGED <<chunkVars, storeVars, sqlVars, dqVars, extractVars>>
    /\ UNCHANGED serviceVars

\* One iteration of the for loop: the search returns and its rows are pushed.
ChatSearchReturns ==
    /\ chatpc = "search"
    /\ queryIndex <= Len(decomposedQueries)
    /\ \E sim \in ChatSimilarities, check, rpc, fallback \in DbOutcomes :
          LET docs == searchSimilarDocuments(
                          ChatUser, ChatSearchLimit,
                          ChatKeyword(decomposedQueries[queryIndex]),
                          sim, check, rpc, fallback)
          IN  /\ ~docs.raised
              /\ relevantDocuments' = relevantDocuments \o docs.rows
    /\ queryIndex' = queryIndex + 1
    /\ UNCHANGED <<documentChunks, sources, chatpc>>
    /\ UNCHANGED <<chunkVars, storeVars, sqlVars, dqVars, extractVars>>
    /\ UNCHANGED serviceVars

\* One iteration of the for loop: the search throws; the catch logs and the
\* turn goes on with relevantDocuments as it is.
ChatSearchThrows ==
    /\ chatpc = "search"
    /\ queryIndex <= Len(decomposedQueries)
    /\ \E sim \in ChatSimilarities, check, rpc, fallback \in DbOutcomes :
          searchSimilarDocuments(ChatUser, ChatSearchLimit,
                                 ChatKeyword(decomposedQueries[queryIndex]),
                                 sim, check, rpc, fallback).raised
    /\ chatpc' = "context"
    /\ UNCHANGED <<relevantDocuments, queryIndex, documentChunks, sources>>
    /\ UNCHANGED <<chunkVars, storeVars, sqlVars, dqVars, extractVars>>
    /\ UNCHANGED serviceVars

\* The loop is over: remove the duplicates.
ChatRemoveDuplicates ==
    /\ chatpc = "search"
    /\ queryIndex > Len(decomposedQueries)
    /\ relevantDocuments' = RemoveDuplicates(relevantDocuments)
    /\ chatpc' = "context"
    /\ UNCHANGED <<queryIndex, documentChunks, sources>>
    /\ UNCHANGED <<chunkVars, storeVars, sqlVars, dqVars, extractVars>>
    /\ UNCHANGED serviceVars

\* Build the context for generateChatResponse and the sources of the reply.
ChatRespond ==
    /\ chatpc = "context"
    /\ documentChunks' = [i \in DOMAIN relevantDocuments |->
                             [content |-> relevantDocuments[i].content,
                              similarity |-> relevantDocuments[i].similarity]]
    /\ sources' = [i \in DOMAIN relevantDocuments |->
                      [document_id |-> relevantDocuments[i].document_id,
                       content |-> ContentPreview(relevantDocuments[i].content),
                       similarity |-> relevantDocuments[i].similarity]]
    /\ chatpc' = "done"
    /\ UNCHANGED <<relevantDocuments, queryIndex>>
    /\ UNCHANGED <<chunkVars, storeVars, sqlVars, dqVars, extractVars>>
    /\ UNCHANGED serviceVars

ChatNext ==
    \/ DqNext
    \/ ChatDecomposed
    \/ ChatSearchReturns
    \/ ChatSearchThrows
    \/ ChatRemoveDuplicates
    \/ ChatRespond

(***************************************************************************)
(* Chunking engine: chunkText(text, maxLength = 1000, overlap = 200)       *)
(***************************************************************************)

\* Bounds of the explored inputs.
MaxTextLen == 4
MaxChunkLen == 3

\* Default parameters of chunkText.
DefaultMaxLength == 1000
DefaultOverlap == 200

Chars == {"a", "b"}

\* The example of the specification: 2500 times "A".
ExampleText == [i \in 1..2500 |-> "A"]

\* String.prototype.slice(start, end) for 0 <= start <= end <= length.
Slice(s, from, to) == SubSeq(s, from + 1, to)

\* const end = Math.min(start + maxLength, text.length)
WindowEnd(s, m, len) == Min(s + m, len)

\* Variants of the advance of start: one short of the overlap, one past it,
\* and without overlap.
NextStartNoProgress(end, ov) == end - ov - 1
NextStartGap(end, ov) == end - ov + 1
NextStartNoOverlap(end, ov) == end

\* start = end - overlap
NextStart(end, ov) == end - ov

\* The inputs: every short text with every small window and every overlap
\* from -1 (outside the contract, the code accepts it) to maxLength - 1,
\* and the example call with the default parameters.
ChunkInit ==
    /\ \/ /\ text \in SeqsUpTo(Chars, MaxTextLen)
          /\ maxLength \in 1..MaxChunkLen
          /\ overlap \in (-1)..(maxLength - 1)
       \/ /\ text = ExampleText
          /\ maxLength = DefaultMaxLength
          /\ overlap = DefaultOverlap
    /\ start = 0
    /\ chunks = <<>>
    /\ windows = <<>>
    /\ chunkResult = <<>>
    /\ cpc = "loop"

\* chunkText is not running.
ChunkIdle ==
    /\ text = <<>>
    /\ maxLength = DefaultMaxLength
    /\ overlap = DefaultOverlap
    /\ start = 0
    /\ chunks = <<>>
    /\ windows = <<>>
    /\ chunkResult = <<>>
    /\ cpc = "idle"

\* One iteration of the while loop: push the window, then break or advance.
ChunkIter ==
    /\ cpc = "loop"
    /\ start < Len(text)
    /\ LET end == WindowEnd(start, maxLength, Len(text))
       IN  /\ chunks' = Append(chunks, Slice(text, start, end))
           /\ windows' = Append(windows, <<start, end>>)
           /\ IF end = Len(text)
                 THEN /\ cpc' = "map"
                      /\ start' = start
                 ELSE /\ cpc' = "loop"
                      /\ start' = NextStart(end, overlap)
    /\ UNCHANGED <<text, maxLength, overlap, chunkResult>>
    /\ UNCHANGED <<storeVars, sqlVars, dqVars, chatVars, extractVars>>
    /\ UNCHANGED serviceVars

\* The while condition fails: start >= text.length.
ChunkLoopExit ==
    /\ cpc = "loop"
    /\ start >= Len(text)
    /\ cpc' = "map"
    /\ UNCHANGED <<text, maxLength, overlap, start, chunks, windows, chunkResult>>
    /\ UNCHANGED <<storeVars, sqlVars, dqVars, chatVars, extractVars>>
    /\ UNCHANGED serviceVars

\* return chunks.map((content, index) => ({content, metadata}))
ChunkReturn ==
    /\ cpc = "map"
    /\ chunkResult' = [i \in 1..Len(chunks) |->
                          [content |-> chunks[i],
                           type |-> "text",
                           section |-> [label |-> "Chunk", n |-> i]]]
    /\ cpc' = "done"
    /\ UNCHANGED <<text, maxLength, overlap, start, chunks, windows>>
    /\ UNCHANGED <<storeVars, sqlVars, dqVars, chatVars, extractVars>>
    /\ UNCHANGED serviceVars

ChunkNext == ChunkIter \/ ChunkLoopExit \/ ChunkReturn


(***************************************************************************)
(* Extraction dispatcher: extractTextFromFile and the extractors           *)
(* (lib/document-processor.ts).  A file is what the fetch and the format's *)
(* parser give: whether the fetch succeeded, whether the parser accepted   *)
(* the bytes, and the parsed content (raw text, CSV header and rows,       *)
(* workbook sheets, notebook cells).                                       *)
(***************************************************************************)

\* Bounds of the explored files.
MaxFileTextLen == 4
MaxRows == 2
MaxCells == 2

PDF == "application/pdf"
DOCX == "application/vnd.openxmlformats-officedocument.wordprocessingml.document"
HTML == "text/html"
CSV == "text/csv"
XLSX == "application/vnd.openxmlformats-officedocument.spreadsheetml.sheet"
PPTX == "application/vnd.openxmlformats-officedocument.presentationml.presentation"
IPYNB == "application/x-ipynb+json"
JPEG == "image/jpeg"
PNG == "image/png"
PLAIN == "text/plain"

FileTypes == {PDF, DOCX, HTML, CSV, XLSX, PPTX, IPYNB, JPEG, PNG, PLAIN}

\* The characters of a file's text; TAG stands for one HTML tag.
FileChars == {"a", " ", "\n"}
HtmlChars == {"a", " ", "\n", "TAG"}

IsSpace(c) == c = " " \/ c = "\n"

\* p.trim() is not the empty string
HasText(s) == \E i \in DOMAIN s : ~IsSpace(s[i])

RECURSIVE TrimSpaceLeft(_)
TrimSpaceLeft(s) ==
    IF s # <<>> /\ IsSpace(s[1]) THEN TrimSpaceLeft(Tail(s)) ELSE s

RECURSIVE TrimSpaceRight(_)
TrimSpaceRight(s) ==
    IF s # <<>> /\ IsSpace(Last(s))
        THEN TrimSpaceRight(SubSeq(s, 1, Len(s) - 1)) ELSE s

\* chunk.trim()
TrimSpace(s) == TrimSpaceLeft(TrimSpaceRight(s))

\* The length of the separator that matches at position i, 0 when none does:
\* the string '\n\n', or the regular expression /\n\s*\n/ (greedy).
SeparatorAt(s, i, isRegex) ==
    IF s[i] # "\n" THEN 0
    ELSE IF isRegex
        THEN LET ends == {j \in (i + 1)..Len(s) :
                             /\ s[j] = "\n"
                             /\ \A k \in (i + 1)..(j - 1) : IsSpace(s[k])}
             IN  IF ends = {} THEN 0
                 ELSE (CHOOSE j \in ends : \A k \in ends : k <= j) - i + 1
        ELSE IF i + 1 <= Len(s) /\ s[i + 1] = "\n" THEN 2 ELSE 0

RECURSIVE SplitFrom(_, _, _, _)
SplitFrom(s, i, pieceStart, isRegex) ==
    IF i > Len(s) THEN <<SubSeq(s, pieceStart, Len(s))>>
    ELSE LET n == SeparatorAt(s, i, isRegex)
         IN  IF n > 0
                 THEN <<SubSeq(s, pieceStart, i - 1)>>
                          \o SplitFrom(s, i + n, i + n, isRegex)
                 ELSE SplitFrom(s, i + 1, pieceStart, isRegex)

\* String.prototype.split(separator)
Split(s, isRegex) == SplitFrom(s, 1, 1, isRegex)

\* text.split(separator).filter(p => p.trim())
Paragraphs(s, isRegex) == SelectSeq(Split(s, isRegex), HasText)

RECURSIVE CollapseSpace(_)
CollapseSpace(s) ==
    IF s = <<>> THEN <<>>
    ELSE IF IsSpace(s[1])
        THEN <<" ">> \o CollapseSpace(TrimSpaceLeft(s))
        ELSE <<s[1]>> \o CollapseSpace(Tail(s))

\* text.replace(/<[^>]*>/g, ' ').replace(/\s+/g, ' ').trim()
HtmlTextContent(s) ==
    TrimSpace(CollapseSpace([i \in DOMAIN s |-> IF s[i] = "TAG" THEN " " ELSE s[i]]))

Section(label, n) == [label |-> label, n |-> n]

Chunk(content, type, section, status) ==
    [content |-> content, type |-> type, section |-> section,
     processingStatus |-> status]

RECURSIVE Join(_, _)
\* Array.prototype.join(separator) on an array of token sequences
Join(parts, sep) ==
    IF parts = <<>> THEN <<>>
    ELSE IF Len(parts) = 1 THEN parts[1]
    ELSE parts[1] \o <<sep>> \o Join(Tail(parts), sep)

\* A result of an extractor: the chunks it returns, or a throw.
Chunks(cs) == [threw |-> FALSE, chunks |-> cs]
Throws == [threw |-> TRUE, chunks |-> <<>>]

\* catch (error) { return [{ content: ..., metadata: { processingStatus: 'failed' } }] }
PdfFailedChunk(f) ==
    Chunks(<<Chunk(<<"PDF file: Content extraction failed">>, "pdf",
                   Section("Document", 0), "failed")>>)

\* extractTextFromPDF
extractTextFromPDF(f) ==
    IF ~f.fetchOk \/ ~f.parseOk THEN PdfFailedChunk(f)
    ELSE IF ~HasText(f.text)
        THEN Chunks(<<Chunk(<<"PDF file: No text content found">>, "pdf",
                            Section("Document", 0), "none")>>)
    ELSE LET sections == Paragraphs(f.text, TRUE)
         IN  IF Len(sections) = 0
                 THEN Chunks(<<Chunk(f.text, "pdf", Section("Document", 0), "none")>>)
                 ELSE Chunks([i \in DOMAIN sections |->
                                 Chunk(TrimSpace(sections[i]), "pdf",
                                       Section("Section", i), "none")])

\* extractTextFromDOCX
extractTextFromDOCX(f) ==
    IF ~f.fetchOk \/ ~f.parseOk THEN Throws
    ELSE LET paragraphs == Paragraphs(f.text, FALSE)
         IN  Chunks([i \in DOMAIN paragraphs |->
                        Chunk(paragraphs[i], "docx", Section("Paragraph", i), "none")])

\* extractTextFromHTML
extractTextFromHTML(f) ==
    IF ~f.fetchOk THEN Throws
    ELSE LET paragraphs == Paragraphs(HtmlTextContent(f.text), TRUE)
         IN  Chunks([i \in DOMAIN paragraphs |->
                        Chunk(paragraphs[i], "html", Section("Section", i), "none")])

\* Object.entries(record).map(([key, value]) => `${key}: ${value}`).join(', ')
RecordContent(header, row) ==
    Join([k \in DOMAIN header |-> <<header[k], ": ", row[k]>>], ", ")

\* extractTextFromCSV: csv.parse(text, { columns: true }, ...)
extractTextFromCSV(f) ==
    IF ~f.fetchOk \/ ~f.parseOk THEN Throws
    ELSE Chunks([i \in DOMAIN f.rows |->
                    Chunk(RecordContent(f.header, f.rows[i]), "csv",
                          Section("Row", i), "none")])

\* The rows of one sheet with row.length > 0, each with its index.
SheetChunks(sheet) ==
    LET kept == {i \in DOMAIN sheet.rows : Len(sheet.rows[i]) > 0}
    IN  [k \in 1..Cardinality(kept) |->
            LET i == CHOOSE x \in kept : Cardinality({j \in kept : j < x}) = k - 1
            IN  Chunk(Join([c \in DOMAIN sheet.rows[i] |-> <<sheet.rows[i][c]>>], ", "),
                      "xlsx", Section(sheet.name, i), "none")]

RECURSIVE WorkbookChunks(_)
WorkbookChunks(sheets) ==
    IF sheets = <<>> THEN <<>>
    ELSE SheetChunks(sheets[1]) \o WorkbookChunks(Tail(sheets))

\* extractTextFromXLSX: sheet_to_json(worksheet, { header: 1 }) gives every
\* row of the sheet, the first one included.
extractTextFromXLSX(f) ==
    IF ~f.fetchOk \/ ~f.parseOk THEN Throws
    ELSE Chunks(WorkbookChunks(f.sheets))

\* extractTextFromPPTX: a placeholder, the file is not fetched.
extractTextFromPPTX(f) ==
    Chunks(<<Chunk(<<"PowerPoint presentation">>, "pptx",
                   Section("Presentation", 0), "none")>>)

\* cell.source.length: the number of characters of a string, of elements
\* of an array.
SourceLength(source) ==
    IF source.isArray THEN Len(source.parts) ELSE Len(source.parts[1])

\* cell.source && cell.source.length > 0
CellHasSource(cell) == cell.source.present /\ SourceLength(cell.source) > 0

RECURSIVE Concat(_)
\* Array.prototype.join('')
Concat(parts) ==
    IF parts = <<>> THEN <<>> ELSE parts[1] \o Concat(Tail(parts))

\* Array.isArray(cell.source) ? cell.source.join('') : cell.source
CellContent(cell) ==
    IF cell.source.isArray THEN Concat(cell.source.parts) ELSE cell.source.parts[1]

\* extractTextFromNotebook
extractTextFromNotebook(f) ==
    IF ~f.fetchOk \/ ~f.parseOk THEN Throws
    ELSE LET kept == {i \in DOMAIN f.cells : CellHasSource(f.cells[i])}
         IN  Chunks([k \in 1..Cardinality(kept) |->
                LET i == CHOOSE x \in kept : Cardinality({j \in kept : j < x}) = k - 1
                IN  Chunk(CellContent(f.cells[i]), "notebook", Section("Cell", i),
                          "none")])

\* extractTextFromImage: a placeholder, the file is not fetched.
extractTextFromImage(f) ==
    Chunks(<<Chunk(<<"Image file">>, "image", Section("Image Content", 0), "none")>>)

\* extractTextFromPlainText
extractTextFromPlainText(f) ==
    IF ~f.fetchOk THEN Throws
    ELSE LET paragraphs == Paragraphs(f.text, FALSE)
         IN  Chunks([i \in DOMAIN paragraphs |->
                        Chunk(paragraphs[i], "text", Section("Paragraph", i), "none")])

\* The switch of extractTextFromFile.
Dispatch(f) ==
    CASE f.type = PDF -> extractTextFromPDF(f)
      [] f.type = DOCX -> extractTextFromDOCX(f)
      [] f.type = HTML -> extractTextFromHTML(f)
      [] f.type = CSV -> extractTextFromCSV(f)
      [] f.type = XLSX -> extractTextFromXLSX(f)
      [] f.type = PPTX -> extractTextFromPPTX(f)
      [] f.type = IPYNB -> extractTextFromNotebook(f)
      [] f.type \in {JPEG, PNG} -> extractTextFromImage(f)
      [] OTHER -> extractTextFromPlainText(f)

File(type, fetchOk, parseOk, txt, header, rows, sheets, cells) ==
    [type |-> type, fetchOk |-> fetchOk, parseOk |-> parseOk, text |-> txt,
     header |-> header, rows |-> rows, sheets |-> sheets, cells |-> cells]

TextFile(type, fetchOk, parseOk, txt) ==
    File(type, fetchOk, parseOk, txt, <<>>, <<>>, <<>>, <<>>)

CsvHeaders == {<<>>, <<"k1">>, <<"k1", "k2">>}

SheetRows == SeqsUpTo(SeqsUpTo({"x"}, 2), MaxRows)

Workbooks ==
    {<<>>}
        \cup {<<[name |-> "Sheet1", rows |-> r]>> : r \in SheetRows}
        \cup {<<[name |-> "Sheet1", rows |-> r1], [name |-> "Sheet2", rows |-> r2]>> :
                 r1 \in SheetRows, r2 \in {<<>>, <<(<<"x">>)>>}}

\* The source of a notebook cell: missing, a string (parts holds it), or an
\* array of strings.
CellSources ==
    { [present |-> FALSE, isArray |-> FALSE, parts |-> <<(<<>>)>>],
      [present |-> TRUE, isArray |-> FALSE, parts |-> <<(<<>>)>>],
      [present |-> TRUE, isArray |-> FALSE, parts |-> <<(<<"a">>)>>],
      [present |-> TRUE, isArray |-> TRUE, parts |-> <<>>],
      [present |-> TRUE, isArray |-> TRUE, parts |-> <<(<<>>)>>],
      [present |-> TRUE, isArray |-> TRUE, parts |-> <<(<<"a">>), (<<"\n">>)>>] }

Cells == {[cell_type |-> t, source |-> src] : t \in {"code", "markdown"}, src \in CellSources}

\* The files explored, per declared media type.
Files ==
    {TextFile(t, fo, po, txt) :
        t \in {PDF, DOCX}, fo \in BOOLEAN, po \in BOOLEAN,
        txt \in SeqsUpTo(FileChars, MaxFileTextLen)}
    \cup {TextFile(PLAIN, fo, TRUE, txt) :
        fo \in BOOLEAN, txt \in SeqsUpTo(FileChars, MaxFileTextLen)}
    \cup {TextFile(HTML, fo, TRUE, txt) :
        fo \in BOOLEAN, txt \in SeqsUpTo(HtmlChars, MaxFileTextLen)}
    \cup UNION {{File(CSV, fo, po, <<>>, h, rows, <<>>, <<>>) :
                    fo \in BOOLEAN, po \in BOOLEAN,
                    rows \in SeqsUpTo([DOMAIN h -> {"x", "y"}], MaxRows)} :
                h \in CsvHeaders}
    \cup {File(XLSX, fo, po, <<>>, <<>>, <<>>, wb, <<>>) :
        fo \in BOOLEAN, po \in BOOLEAN, wb \in Workbooks}
    \cup {File(IPYNB, fo, po, <<>>, <<>>, <<>>, <<>>, cells) :
        fo \in BOOLEAN, po \in BOOLEAN, cells \in SeqsUpTo(Cells, MaxCells)}
    \cup {TextFile(t, fo, TRUE, <<>>) : t \in {PPTX, JPEG, PNG}, fo \in BOOLEAN}

ExtractInit ==
    /\ file \in Files
    /\ extracted = <<>>
    /\ expc = "dispatch"

\* extractTextFromFile is not running.
ExtractIdle ==
    /\ file = TextFile(PLAIN, TRUE, TRUE, <<>>)
    /\ extracted = <<>>
    /\ expc = "idle"

\* The extractor returns its chunks and extractTextFromFile returns them.
ExtractReturns ==
    /\ expc = "dispatch"
    /\ ~Dispatch(file).threw
    /\ extracted' = Dispatch(file).chunks
    /\ expc' = "returned"
    /\ UNCHANGED file
    /\ UNCHANGED <<chunkVars, storeVars, sqlVars, dqVars, chatVars>>
    /\ UNCHANGED serviceVars

\* The extractor throws into the catch of extractTextFromFile.
ExtractThrows ==
    /\ expc = "dispatch"
    /\ Dispatch(file).threw
    /\ expc' = "caught"
    /\ UNCHANGED <<file, extracted>>
    /\ UNCHANGED <<chunkVars, storeVars, sqlVars, dqVars, chatVars>>
    /\ UNCHANGED serviceVars

\* catch (error) { throw new Error(`Failed to extract text from ...`) }
ExtractRethrows ==
    /\ expc = "caught"
    /\ expc' = "raised"
    /\ UNCHANGED <<file, extracted>>
    /\ UNCHANGED <<chunkVars, storeVars, sqlVars, dqVars, chatVars>>
    /\ UNCHANGED serviceVars

ExtractNext == ExtractReturns \/ ExtractThrows \/ ExtractRethrows

(***************************************************************************)
(* Embedding adapter: retryWithBackoff, generateDeterministicEmbedding and *)
(* generateEmbedding (lib/embeddings.ts).  A text is a sequence of UTF-16  *)
(* code units.  A vector is [dim, at, scaleSq]: it has dim components, the *)
(* component at index i is at[i] / sqrt(scaleSq) for i in DOMAIN at and 0  *)
(* elsewhere; the numerators are in thousandths.                           *)
(***************************************************************************)

\* new Array(384)
EmbeddingDim == 384

\* maxRetries: number = 3
HfMaxRetries == 3

\* Bound of the explored texts.
MaxEmbedTextLen == 2

\* The code units explored: NUL, space, A, a, b (an uploaded text may also
\* hold line feeds).
CharCodes == {0, 32, 65, 97, 98}

\* Math.sin(char * 0.1) * 0.5, in thousandths.
SinHalf(c) ==
    CASE c = 0 -> 0
      [] c = 10 -> 421
      [] c = 32 -> -29
      [] c = 65 -> 108
      [] c = 97 -> -136
      [] c = 98 -> -183

\* const index = (char + i) % 384, for the position i counted from 0
IndexOf(t, i) == (t[i + 1] + i) % EmbeddingDim

RECURSIVE SumSinHalf(_, _)
\* The sum of Math.sin(char * 0.1) * 0.5 over the positions in P.
SumSinHalf(t, P) ==
    IF P = {} THEN 0
    ELSE LET i == CHOOSE j \in P : TRUE
         IN  SinHalf(t[i + 1]) + SumSinHalf(t, P \ {i})

\* What the for loop over the text adds to embedding[idx].
Contribution(t, idx) ==
    SumSinHalf(t, {i \in 0..(Len(t) - 1) : IndexOf(t, i) = idx})

\* The for loop over the text: the components it has added to.
Accumulate(t) ==
    [idx \in {IndexOf(t, i) : i \in 0..(Len(t) - 1)} |-> Contribution(t, idx)]

RECURSIVE SumSquaresIn(_, _, _, _)
\* The sum of the squares of the components with index in S, a subset of
\* lo..hi; a component the loop never added to is 0 and is not in S.
SumSquaresIn(f, S, lo, hi) ==
    IF S = {} THEN 0
    ELSE IF lo = hi THEN f[lo] * f[lo]
    ELSE LET mid == (lo + hi) \div 2
         IN  SumSquaresIn(f, {x \in S : x <= mid}, lo, mid)
                 + SumSquaresIn(f, {x \in S : x > mid}, mid + 1, hi)

\* embedding.reduce((sum, val) => sum + val * val, 0)
SumSquares(f) == SumSquaresIn(f, DOMAIN f, 0, EmbeddingDim - 1)

\* A variant that leaves the components as they are.
NormalizeSkipped(acc) == [dim |-> EmbeddingDim, at |-> acc, scaleSq |-> 1]

\* if (magnitude > 0) { embedding[i] /= magnitude }
Normalize(acc) ==
    [dim |-> EmbeddingDim, at |-> acc,
     scaleSq |-> IF SumSquares(acc) > 0 THEN SumSquares(acc) ELSE 1]

generateDeterministicEmbedding(t) == Normalize(Accumulate(t))

\* The Euclidean norm of v is 1; every component of v is 0.
HasUnitNorm(v) == SumSquares(v.at) = v.scaleSq
IsZeroVector(v) == \A i \in DOMAIN v.at : v.at[i] = 0

\* What hf.featureExtraction may resolve with: an array of numbers, an
\* array whose first element is an array of numbers (each of the model's 384
\* numbers, or empty), a number, null.
HfResponses ==
    { [kind |-> "vector", dim |-> EmbeddingDim],
      [kind |-> "nested", dim |-> EmbeddingDim],
      [kind |-> "vector", dim |-> 0],
      [kind |-> "nested", dim |-> 0],
      [kind |-> "scalar", dim |-> 0],
      [kind |-> "null", dim |-> 0] }

\* retryWithBackoff threw: there is no response.
NoHfResponse == [kind |-> "none", dim |-> 0]

\* The statuses error.httpResponse?.status may have; 0 stands for an error
\* without httpResponse.
HfErrorStatuses == {0, 401, 403, 429, 500, 503}

\* A variant that retries after every failure but the last.
HfShouldRetryAnyStatus(i, status) == i # HfMaxRetries - 1

\* if (i === maxRetries - 1) throw error; retry on 503, 429 and 500 only
HfShouldRetry(i, status) ==
    /\ i # HfMaxRetries - 1
    /\ status \in {503, 429, 500}

\* response[0] throws a TypeError
ResponseThrows(r) == r.kind = "null"

\* Array.isArray(response[0]) ? response[0] : response
EmbeddingOf(r) ==
    IF r.kind = "nested" THEN [kind |-> "vector", dim |-> r.dim] ELSE r

\* A variant that accepts every response.
IsValidEmbeddingAlways(e) == TRUE

\* !(!Array.isArray(embedding) || embedding.length === 0)
IsValidEmbedding(e) == e.kind = "vector" /\ e.dim > 0

\* The provider's vector of d numbers (a unit vector).
PrimaryVector(d) ==
    [dim |-> d, at |-> [i \in (IF d > 0 THEN {0} ELSE {}) |-> 1], scaleSq |-> 1]

\* return { embedding: generateDeterministicEmbedding(text), model: "fallback" }
FallbackEmbedding(t) ==
    [embedding |-> generateDeterministicEmbedding(t), model |-> "fallback"]

\* generateEmbedding(text), given what retryWithBackoff resolved with
\* (NoHfResponse when it threw).
generateEmbedding(t, r) ==
    IF r # NoHfResponse /\ ~ResponseThrows(r) /\ IsValidEmbedding(EmbeddingOf(r))
        THEN [embedding |-> PrimaryVector(EmbeddingOf(r).dim), model |-> "huggingface"]
        ELSE FallbackEmbedding(t)

NoEmbedding == [embedding |-> PrimaryVector(0), model |-> "(none)"]

EmbedInit ==
    /\ etext \in SeqsUpTo(CharCodes, MaxEmbedTextLen)
    /\ ei = 0
    /\ ecalls = 0
    /\ estatuses = <<>>
    /\ eresponse = NoHfResponse
    /\ eresult = NoEmbedding
    /\ epc = "call"

\* generateEmbedding is not running.
EmbedIdle ==
    /\ etext = <<>>
    /\ ei = 0
    /\ ecalls = 0
    /\ estatuses = <<>>
    /\ eresponse = NoHfResponse
    /\ eresult = NoEmbedding
    /\ epc = "idle"

\* retryWithBackoff: fn() resolves, the loop returns its result.
EmbedCallSucceeds ==
    /\ epc = "call"
    /\ ecalls' = ecalls + 1
    /\ \E r \in HfResponses : eresponse' = r
    /\ epc' = "check"
    /\ UNCHANGED <<etext, ei, estatuses, eresult>>
    /\ UNCHANGED <<chunkVars, storeVars, sqlVars, dqVars, chatVars, extractVars>>
    /\ UNCHANGED <<genVars, searchVars, uploadVars, authVars, deleteVars>>

\* retryWithBackoff: fn() rejects; wait and try again, or rethrow into the
\* catch of generateEmbedding.
EmbedCallFails ==
    /\ epc = "call"
    /\ ecalls' = ecalls + 1
    /\ \E status \in HfErrorStatuses :
          /\ estatuses' = Append(estatuses, status)
          /\ IF HfShouldRetry(ei, status)
                THEN /\ ei' = ei + 1
                     /\ epc' = "call"
                ELSE /\ ei' = ei
                     /\ epc' = "catch"
    /\ UNCHANGED <<etext, eresponse, eresult>>
    /\ UNCHANGED <<chunkVars, storeVars, sqlVars, dqVars, chatVars, extractVars>>
    /\ UNCHANGED <<genVars, searchVars, uploadVars, authVars, deleteVars>>

\* The response holds a non-empty array: return it as the primary result.
EmbedReturnPrimary ==
    /\ epc = "check"
    /\ ~ResponseThrows(eresponse)
    /\ IsValidEmbedding(EmbeddingOf(eresponse))
    /\ eresult' = generateEmbedding(etext, eresponse)
    /\ epc' = "done"
    /\ UNCHANGED <<etext, ei, ecalls, estatuses, eresponse>>
    /\ UNCHANGED <<chunkVars, storeVars, sqlVars, dqVars, chatVars, extractVars>>
    /\ UNCHANGED <<genVars, searchVars, uploadVars, authVars, deleteVars>>

\* response[0] throws, or throw new Error("Invalid embedding response ...").
EmbedInvalidResponse ==
    /\ epc = "check"
    /\ ResponseThrows(eresponse) \/ ~IsValidEmbedding(EmbeddingOf(eresponse))
    /\ epc' = "catch"
    /\ UNCHANGED <<etext, ei, ecalls, estatuses, eresponse, eresult>>
    /\ UNCHANGED <<chunkVars, storeVars, sqlVars, dqVars, chatVars, extractVars>>
    /\ UNCHANGED <<genVars, searchVars, uploadVars, authVars, deleteVars>>

\* The catch of generateEmbedding: the deterministic embedding of the text.
EmbedFallback ==
    /\ epc = "catch"
    /\ eresult' = FallbackEmbedding(etext)
    /\ epc' = "done"
    /\ UNCHANGED <<etext, ei, ecalls, estatuses, eresponse>>
    /\ UNCHANGED <<chunkVars, storeVars, sqlVars, dqVars, chatVars, extractVars>>
    /\ UNCHANGED <<genVars, searchVars, uploadVars, authVars, deleteVars>>

EmbedNext ==
    \/ EmbedCallSucceeds
    \/ EmbedCallFails
    \/ EmbedReturnPrimary
    \/ EmbedInvalidResponse
    \/ EmbedFallback

(***************************************************************************)
(* Answer synthesis: generateChatResponse and its retryWithBackoff         *)
(* (lib/gemini.ts).                                                        *)
(***************************************************************************)

\* The texts a model response may hold.
GenTexts == {"", "answer"}

\* What model.generateContent may resolve with: a response with text, or a
\* response whose text() throws.
GenResponses ==
    {[blocked |-> FALSE, text |-> t] : t \in GenTexts}
        \cup {[blocked |-> TRUE, text |-> ""]}

NoGenResponse == [blocked |-> FALSE, text |-> "(none)"]

\* No error was caught.
NoStatus == -1

OverloadedReply == "I'm sorry, but the AI service is currently experiencing high traffic."
RateLimitedReply == "I'm receiving too many requests right now."
MalformedReply == "I encountered an issue processing your request."
GenericReply == "I'm experiencing technical difficulties right now."

\* A variant with one reply for every error.
FallbackReplyGeneric(status) == GenericReply

\* if (error.status === 503) ... else if (429) ... else if (400) ... else ...
FallbackReply(status) ==
    CASE status = 503 -> OverloadedReply
      [] status = 429 -> RateLimitedReply
      [] status = 400 -> MalformedReply
      [] OTHER -> GenericReply

NoReply == [fallback |-> FALSE, text |-> "(none)"]

GenInit ==
    /\ gi = 0
    /\ gcalls = 0
    /\ gstatuses = <<>>
    /\ gresponse = NoGenResponse
    /\ gerror = NoStatus
    /\ greply = NoReply
    /\ gpc = "call"

\* generateChatResponse is not running.
GenIdle ==
    /\ gi = 0
    /\ gcalls = 0
    /\ gstatuses = <<>>
    /\ gresponse = NoGenResponse
    /\ gerror = NoStatus
    /\ greply = NoReply
    /\ gpc = "idle"

\* retryWithBackoff: fn() resolves, the loop returns its result.
GenCallSucceeds ==
    /\ gpc = "call"
    /\ gcalls' = gcalls + 1
    /\ \E r \in GenResponses : gresponse' = r
    /\ gpc' = "text"
    /\ UNCHANGED <<gi, gstatuses, gerror, greply>>
    /\ UNCHANGED <<chunkVars, storeVars, sqlVars, dqVars, chatVars, extractVars>>
    /\ UNCHANGED <<embedVars, searchVars, uploadVars, authVars, deleteVars>>

\* retryWithBackoff: fn() rejects; wait and try again, or rethrow into the
\* catch of generateChatResponse.
GenCallFails ==
    /\ gpc = "call"
    /\ gcalls' = gcalls + 1
    /\ \E status \in ErrorStatuses :
          /\ gstatuses' = Append(gstatuses, status)
          /\ IF ShouldRetry(gi, status)
                THEN /\ gi' = gi + 1
                     /\ gerror' = gerror
                     /\ gpc' = "call"
                ELSE /\ gi' = gi
                     /\ gerror' = status
                     /\ gpc' = "catch"
    /\ UNCHANGED <<gresponse, greply>>
    /\ UNCHANGED <<chunkVars, storeVars, sqlVars, dqVars, chatVars, extractVars>>
    /\ UNCHANGED <<embedVars, searchVars, uploadVars, authVars, deleteVars>>

\* return response.text()
GenReturnText ==
    /\ gpc = "text"
    /\ ~gresponse.blocked
    /\ greply' = [fallback |-> FALSE, text |-> gresponse.text]
    /\ gpc' = "done"
    /\ UNCHANGED <<gi, gcalls, gstatuses, gresponse, gerror>>
    /\ UNCHANGED <<chunkVars, storeVars, sqlVars, dqVars, chatVars, extractVars>>
    /\ UNCHANGED <<embedVars, searchVars, uploadVars, authVars, deleteVars>>

\* response.text() throws an error without status.
GenTextThrows ==
    /\ gpc = "text"
    /\ gresponse.blocked
    /\ gerror' = 0
    /\ gpc' = "catch"
    /\ UNCHANGED <<gi, gcalls, gstatuses, gresponse, greply>>
    /\ UNCHANGED <<chunkVars, storeVars, sqlVars, dqVars, chatVars, extractVars>>
    /\ UNCHANGED <<embedVars, searchVars, uploadVars, authVars, deleteVars>>

\* The catch of generateChatResponse: the reply for the error's status.
GenCatch ==
    /\ gpc = "catch"
    /\ greply' = [fallback |-> TRUE, text |-> FallbackReply(gerror)]
    /\ gpc' = "done"
    /\ UNCHANGED <<gi, gcalls, gstatuses, gresponse, gerror>>
    /\ UNCHANGED <<chunkVars, storeVars, sqlVars, dqVars, chatVars, extractVars>>
    /\ UNCHANGED <<embedVars, searchVars, uploadVars, authVars, deleteVars>>

GenNext ==
    \/ GenCallSucceeds
    \/ GenCallFails
    \/ GenReturnText
    \/ GenTextThrows
    \/ GenCatch

(***************************************************************************)
(* One call of searchSimilarDocuments (lib/embeddings.ts), with how each   *)
(* of its datastore calls ends.  generateEmbedding returns on every path,  *)
(* so the query embedding is always there.                                 *)
(***************************************************************************)

\* The users that search: the two with stored chunks and one without.
SearchUsers == Users \cup {"u3"}

\* limit: the value the chat route passes and a smaller one.
SearchLimits == {2, ChatSearchLimit}

SearchKeywords == {NullText, TextOf(<<"b">>)}

NoSearchCall ==
    [userId |-> "u1", limit |-> ChatSearchLimit, keyword |-> NullText,
     sim |-> [i \in EmbeddingIds |-> 0],
     check |-> "rows", rpc |-> "rows", fallback |-> "rows"]

SearchInit ==
    /\ searchCall \in [userId : SearchUsers, limit : SearchLimits,
                       keyword : SearchKeywords, sim : ChatSimilarities,
                       check : DbOutcomes, rpc : DbOutcomes, fallback : DbOutcomes]
    /\ searchResult = Returned(<<>>)
    /\ searchpc = "call"

\* searchSimilarDocuments is not running.
SearchIdle ==
    /\ searchCall = NoSearchCall
    /\ searchResult = Returned(<<>>)
    /\ searchpc = "idle"

\* What the call gives for its arguments and datastore outcomes.
SearchOutcome ==
    searchSimilarDocuments(searchCall.userId, searchCall.limit, searchCall.keyword,
                           searchCall.sim, searchCall.check, searchCall.rpc,
                           searchCall.fallback)

\* The function returns a list.
SearchReturns ==
    /\ searchpc = "call"
    /\ ~SearchOutcome.raised
    /\ searchResult' = SearchOutcome
    /\ searchpc' = "returned"
    /\ UNCHANGED searchCall
    /\ UNCHANGED <<chunkVars, storeVars, sqlVars, dqVars, chatVars, extractVars>>
    /\ UNCHANGED <<embedVars, genVars, uploadVars, authVars, deleteVars>>

\* The query in the catch block rejects: the function throws.
SearchRaises ==
    /\ searchpc = "call"
    /\ SearchOutcome.raised
    /\ searchResult' = SearchOutcome
    /\ searchpc' = "raised"
    /\ UNCHANGED searchCall
    /\ UNCHANGED <<chunkVars, storeVars, sqlVars, dqVars, chatVars, extractVars>>
    /\ UNCHANGED <<embedVars, genVars, uploadVars, authVars, deleteVars>>

SearchNext == SearchReturns \/ SearchRaises

(***************************************************************************)
(* POST /api/documents/upload (app/api/documents/upload/route.ts), after   *)
(* the token was verified, with storeDocumentEmbeddings                    *)
(* (lib/embeddings.ts).  Each datastore or storage call ends in one of the *)
(* DbOutcomes; a write is applied only when it resolves without error.     *)
(***************************************************************************)

\* embedding vector(1536) of table document_embeddings in schema.sql
SchemaEmbeddingDim == 1536

\* alter column embedding type vector(384) of the migration
MigratedEmbeddingDim == 384

\* alter table documents add column document_embedding vector(1536)
DocumentEmbeddingDim == 1536

\* query_embedding vector(1536) of the hybrid search_documents
HybridQueryDim == 1536

\* The deployments: the schema alone, or the schema with the migration.
ColumnDims == {SchemaEmbeddingDim, MigratedEmbeddingDim}

UploadUser == "u1"
NewDocumentId == "d4"
NewCreatedAt == 4

RECURSIVE ChunkSlices(_, _, _, _)
\* The while loop of chunkText from offset s on.
ChunkSlices(t, m, ov, s) ==
    IF s >= Len(t) THEN <<>>
    ELSE LET end == WindowEnd(s, m, Len(t))
         IN  <<Slice(t, s, end)>>
                 \o (IF end = Len(t) THEN <<>>
                     ELSE ChunkSlices(t, m, ov, NextStart(end, ov)))

\* chunkText(text, maxLength, overlap) as a function of its arguments.
chunkText(t, m, ov) ==
    LET slices == ChunkSlices(t, m, ov, 0)
    IN  [i \in 1..Len(slices) |->
            [content |-> slices[i], type |-> "text",
             section |-> [label |-> "Chunk", n |-> i]]]

\* Bound: the length of the longest uploaded text beyond maxLength.
MaxUploadExcess == 1

\* formData.get("extractedText"): null when the field is missing, else the
\* text: empty, short, or longer than one chunk.
ExtractedTexts ==
    { NullText, TextOf(<<>>), TextOf(<<97, 32, 98>>) }
        \cup { TextOf([i \in 1..(DefaultMaxLength + k) |-> 97]) :
                 k \in 1..MaxUploadExcess }

\* A file of two paragraphs with a blank line between them: "a\n\nb".
TwoParagraphs == <<97, 10, 10, 98>>

\* The uploaded file, and who sends the request: DocumentUpload.onDrop
\* (components/chat-interface.tsx) or another client of the route.
UploadFiles ==
    [type : {PLAIN, PDF}, text : {TwoParagraphs}, client : {"onDrop", "direct"}]

\* extractTextFromPDF(file) of the component, for a file of one page: the
\* page's items and a line feed.
PdfPageText(f) == f.text \o <<10>>

\* onDrop: let extractedText = ''; if (file.type === 'application/pdf')
\* extractedText = await extractTextFromPDF(file)
OnDropExtractedText(f) ==
    IF f.type = PDF THEN TextOf(PdfPageText(f)) ELSE TextOf(<<>>)

\* formData.get("extractedText") for the file and its sender.
RequestTexts(f) ==
    IF f.client = "onDrop" THEN {OnDropExtractedText(f)}
    ELSE ExtractedTexts \cup {TextOf(f.text)}

NoDocument == "(none)"
NoError == "(none)"
NoUploadResponse == [status |-> 0, success |-> FALSE, documentStatus |-> "(none)"]

\* NextResponse.json({ error: ... }, { status: 500 })
UploadFailed == [status |-> 500, success |-> FALSE, documentStatus |-> "(none)"]

\* NextResponse.json({ success: true, document: { ..., status: "completed" } })
UploadSucceeded == [status |-> 200, success |-> TRUE, documentStatus |-> "completed"]

\* The row inserted into documents.
NewDocument ==
    [id |-> NewDocumentId, user_id |-> UploadUser, created_at |-> NewCreatedAt,
     status |-> "processing", summary |-> NoError, document_embedding |-> 0]

\* The row of the uploaded Document, if it was inserted.
UploadedRows == {d \in documents : d.id = NewDocumentId}

\* .update(fields).eq("id", documentData.id)
UpdateDocument(docs, status, summary, dim) ==
    {IF d.id = NewDocumentId
        THEN [d EXCEPT !.status = status, !.summary = summary,
                       !.document_embedding = dim]
        ELSE d : d \in docs}

\* The outcomes of a write: the datastore refuses a vector whose length is
\* not the declared length of the column, and a chunk row whose document_id
\* references no row of documents.
WriteOutcomes(fits) == IF fits THEN DbOutcomes ELSE {"error"}

\* A variant without the foreign key.
ForeignKeyUnchecked(rows, docs) == TRUE

\* document_id uuid references documents(id): every row to insert names the
\* id of a row of documents.
ForeignKeyHolds(rows, docs) ==
    \A i \in DOMAIN rows : \E d \in docs : d.id = rows[i].document_id

\* A variant that takes every update for failed.
UpdateFailedAlways(outcome) == TRUE

\* if (updateError) throw updateError (a rejected update throws as well)
UpdateFailed(outcome) == outcome # "rows"

\* The row of one chunk that storeDocumentEmbeddings pushes.
EmbeddingRow(i, chunk, result) ==
    [id |-> Cardinality(StoredEmbeddings) + i, document_id |-> NewDocumentId,
     content |-> chunk.content, embedding_model |-> result.model,
     embedding |-> result.embedding]

\* storedEmbeddings.filter(se => se.embedding && Array.isArray(se.embedding)
\*   && se.embedding.length > 0), when select() gives the vectors as arrays
ValidEmbeddings(stored, asArrays) ==
    IF asArrays THEN SelectSeq(stored, LAMBDA se : se.embedding.dim > 0) ELSE <<>>

\* The length of documentEmbedding: validEmbeddings[0].embedding.length, 0
\* for null.
DocumentEmbeddingLength(valid) ==
    IF Len(valid) > 0 THEN valid[1].embedding.dim ELSE 0

UploadInit ==
    /\ upFile \in UploadFiles
    /\ columnDim \in ColumnDims
    /\ extractedText \in RequestTexts(upFile)
    /\ upDocument = NoDocument
    /\ upChunks = <<>>
    /\ upIndex = 1
    /\ upEmbeddings = <<>>
    /\ upStored = <<>>
    /\ upError = NoError
    /\ upResponse = NoUploadResponse
    /\ uppc = "storage"

\* No upload request is running.
UploadIdle ==
    /\ upFile = [type |-> PLAIN, text |-> TwoParagraphs, client |-> "direct"]
    /\ columnDim = SchemaEmbeddingDim
    /\ extractedText = NullText
    /\ upDocument = NoDocument
    /\ upChunks = <<>>
    /\ upIndex = 1
    /\ upEmbeddings = <<>>
    /\ upStored = <<>>
    /\ upError = NoError
    /\ upResponse = NoUploadResponse
    /\ uppc = "idle"

\* supabase.storage.from("documents").upload(...): on uploadError, and on a
\* rejection (the outer catch), the route answers 500.
UploadStoreFile ==
    /\ uppc = "storage"
    /\ \E outcome \in DbOutcomes :
          IF outcome = "rows"
             THEN /\ uppc' = "insert"
                  /\ upResponse' = upResponse
             ELSE /\ uppc' = "done"
                  /\ upResponse' = UploadFailed
    /\ UNCHANGED <<upFile, columnDim, extractedText, upDocument, upChunks, upIndex,
                   upEmbeddings, upStored, upError>>
    /\ UNCHANGED <<chunkVars, storeVars, sqlVars, dqVars, chatVars, extractVars>>
    /\ UNCHANGED <<embedVars, genVars, searchVars, authVars, deleteVars>>

\* from("documents").insert({ ..., status: "processing" }).select().single()
UploadInsertDocument ==
    /\ uppc = "insert"
    /\ \E outcome \in DbOutcomes :
          IF outcome = "rows"
             THEN /\ documents' = documents \cup {NewDocument}
                  /\ upDocument' = NewDocumentId
                  /\ uppc' = "chunk"
                  /\ upResponse' = upResponse
             ELSE /\ documents' = documents
                  /\ upDocument' = upDocument
                  /\ uppc' = "done"
                  /\ upResponse' = UploadFailed
    /\ UNCHANGED <<upFile, columnDim, extractedText, upChunks, upIndex, upEmbeddings,
                   upStored, upError, document_embeddings>>
    /\ UNCHANGED <<chunkVars, sqlVars, dqVars, chatVars, extractVars>>
    /\ UNCHANGED <<embedVars, genVars, searchVars, authVars, deleteVars>>

\* const chunks = chunkText(extractedText): text.length throws for null.
UploadChunk ==
    /\ uppc = "chunk"
    /\ IF extractedText.isNull
          THEN /\ upError' = "TypeError"
               /\ upChunks' = upChunks
               /\ uppc' = "catch"
          ELSE /\ upError' = upError
               /\ upChunks' = chunkText(extractedText.s, DefaultMaxLength,
                                        DefaultOverlap)
               /\ uppc' = "embed"
    /\ UNCHANGED <<upFile, columnDim, extractedText, upDocument, upIndex, upEmbeddings,
                   upStored, upResponse>>
    /\ UNCHANGED <<chunkVars, storeVars, sqlVars, dqVars, chatVars, extractVars>>
    /\ UNCHANGED <<embedVars, genVars, searchVars, authVars, deleteVars>>

\* storeDocumentEmbeddings, one iteration of the for loop: embed the chunk
\* and push its row.
UploadEmbedChunk ==
    /\ uppc = "embed"
    /\ upIndex <= Len(upChunks)
    /\ \E r \in HfResponses \cup {NoHfResponse} :
          upEmbeddings' =
              Append(upEmbeddings,
                     EmbeddingRow(upIndex, upChunks[upIndex],
                                  generateEmbedding(upChunks[upIndex].content, r)))
    /\ upIndex' = upIndex + 1
    /\ UNCHANGED <<upFile, columnDim, extractedText, upDocument, upChunks, upStored,
                   upError, upResponse, uppc>>
    /\ UNCHANGED <<chunkVars, storeVars, sqlVars, dqVars, chatVars, extractVars>>
    /\ UNCHANGED <<embedVars, genVars, searchVars, authVars, deleteVars>>

\* storeDocumentEmbeddings, after the loop:
\* from("document_embeddings").insert(embeddings).select(); if (error) throw
UploadInsertEmbeddings ==
    /\ uppc = "embed"
    /\ upIndex > Len(upChunks)
    /\ \E outcome \in WriteOutcomes(
              /\ \A i \in DOMAIN upEmbeddings :
                    upEmbeddings[i].embedding.dim = columnDim
              /\ ForeignKeyHolds(upEmbeddings, documents)) :
          IF outcome = "rows"
             THEN /\ document_embeddings' =
                         document_embeddings \cup SeqToSet(upEmbeddings)
                  /\ upStored' = upEmbeddings
                  /\ upError' = upError
                  /\ uppc' = "update"
             ELSE /\ document_embeddings' = document_embeddings
                  /\ upStored' = upStored
                  /\ upError' = "insert"
                  /\ uppc' = "catch"
    /\ UNCHANGED <<upFile, columnDim, extractedText, upDocument, upChunks, upIndex,
                   upEmbeddings, upResponse, documents>>
    /\ UNCHANGED <<chunkVars, sqlVars, dqVars, chatVars, extractVars>>
    /\ UNCHANGED <<embedVars, genVars, searchVars, authVars, deleteVars>>

\* The average embedding, generateTags and generateDocumentSummary (neither
\* throws), then from("documents").update({ status: "completed", ... }).
UploadComplete ==
    /\ uppc = "update"
    /\ \E asArrays \in BOOLEAN :
          LET length == DocumentEmbeddingLength(ValidEmbeddings(upStored, asArrays))
          IN  \E outcome \in WriteOutcomes(length = 0 \/ length = DocumentEmbeddingDim) :
                 /\ documents' =
                        IF outcome = "rows"
                           THEN UpdateDocument(documents, "completed", "summary", length)
                           ELSE documents
                 /\ IF UpdateFailed(outcome)
                       THEN /\ upError' = "update"
                            /\ uppc' = "catch"
                       ELSE /\ upError' = upError
                            /\ uppc' = "respond"
    /\ UNCHANGED <<upFile, columnDim, extractedText, upDocument, upChunks, upIndex,
                   upEmbeddings, upStored, upResponse, document_embeddings>>
    /\ UNCHANGED <<chunkVars, sqlVars, dqVars, chatVars, extractVars>>
    /\ UNCHANGED <<embedVars, genVars, searchVars, authVars, deleteVars>>

\* catch (error): from("documents").update({ status: "error", summary: ... });
\* its result is not looked at, its rejection reaches the outer catch.
UploadCatch ==
    /\ uppc = "catch"
    /\ \E outcome \in DbOutcomes :
          /\ documents' =
                 IF outcome = "rows"
                    THEN UpdateDocument(documents, "error", upError, 0)
                    ELSE documents
          /\ IF outcome = "reject"
                THEN /\ upResponse' = UploadFailed
                     /\ uppc' = "done"
                ELSE /\ upResponse' = upResponse
                     /\ uppc' = "respond"
    /\ UNCHANGED <<upFile, columnDim, extractedText, upDocument, upChunks, upIndex,
                   upEmbeddings, upStored, upError, document_embeddings>>
    /\ UNCHANGED <<chunkVars, sqlVars, dqVars, chatVars, extractVars>>
    /\ UNCHANGED <<embedVars, genVars, searchVars, authVars, deleteVars>>

\* return NextResponse.json({ success: true, document: { ... } })
UploadRespond ==
    /\ uppc = "respond"
    /\ upResponse' = UploadSucceeded
    /\ uppc' = "done"
    /\ UNCHANGED <<upFile, columnDim, extractedText, upDocument, upChunks, upIndex,
                   upEmbeddings, upStored, upError>>
    /\ UNCHANGED <<chunkVars, storeVars, sqlVars, dqVars, chatVars, extractVars>>
    /\ UNCHANGED <<embedVars, genVars, searchVars, authVars, deleteVars>>

UploadNext ==
    \/ UploadStoreFile
    \/ UploadInsertDocument
    \/ UploadChunk
    \/ UploadEmbedChunk
    \/ UploadInsertEmbeddings
    \/ UploadComplete
    \/ UploadCatch
    \/ UploadRespond

(***************************************************************************)
(* DELETE /api/documents (app/api/documents/route.ts), after the token was *)
(* verified, with the foreign key of document_embeddings (schema.sql):     *)
(* document_id references documents(id) on delete cascade.                 *)
(***************************************************************************)

\* The documents a delete request may name: stored ones and the one being
\* uploaded.
DeleteTargets == {"d1", "d3", NewDocumentId}

NoDeleteResponse == [status |-> 0, success |-> FALSE]

\* NextResponse.json({ error: ... }, { status }) and
\* NextResponse.json({ success: true })
DeleteResponse(status) == [status |-> status, success |-> status = 200]

\* .from("documents").select("file_path").eq("id", documentId)
\*   .eq("user_id", user.id): the rows it matches
OwnDocument(uid, id) == {d \in documents : d.id = id /\ d.user_id = uid}

\* A variant of the foreign key without "on delete cascade".
CascadeNone(embeddings, id) == embeddings

\* on delete cascade: the chunk rows of a deleted document go with it.
Cascade(embeddings, id) == {de \in embeddings : de.document_id # id}

DeleteInit ==
    /\ delUser \in Users
    /\ delDocument \in DeleteTargets
    /\ delResponse = NoDeleteResponse
    /\ delpc = "select"

\* No delete request is running.
DeleteIdle ==
    /\ delUser = "u1"
    /\ delDocument = "d1"
    /\ delResponse = NoDeleteResponse
    /\ delpc = "idle"

\* select("file_path") ... .single(): if (fetchError || !document) 404; a
\* rejection reaches the outer catch.
DeleteSelect ==
    /\ delpc = "select"
    /\ \E outcome \in DbOutcomes :
          CASE outcome = "rows" /\ OwnDocument(delUser, delDocument) # {} ->
                  /\ delResponse' = delResponse
                  /\ delpc' = "storage"
            [] outcome = "reject" ->
                  /\ delResponse' = DeleteResponse(500)
                  /\ delpc' = "done"
            [] OTHER ->
                  /\ delResponse' = DeleteResponse(404)
                  /\ delpc' = "done"
    /\ UNCHANGED <<delUser, delDocument>>
    /\ UNCHANGED <<chunkVars, storeVars, sqlVars, dqVars, chatVars, extractVars>>
    /\ UNCHANGED <<embedVars, genVars, searchVars, uploadVars, authVars>>

\* supabase.storage.from("documents").remove([...]): storageError is only
\* logged; a rejection reaches the outer catch.
DeleteRemoveFile ==
    /\ delpc = "storage"
    /\ \E outcome \in DbOutcomes :
          IF outcome = "reject"
             THEN /\ delResponse' = DeleteResponse(500)
                  /\ delpc' = "done"
             ELSE /\ delResponse' = delResponse
                  /\ delpc' = "delete"
    /\ UNCHANGED <<delUser, delDocument>>
    /\ UNCHANGED <<chunkVars, storeVars, sqlVars, dqVars, chatVars, extractVars>>
    /\ UNCHANGED <<embedVars, genVars, searchVars, uploadVars, authVars>>

\* .from("documents").delete().eq("id", documentId).eq("user_id", user.id)
DeleteRow ==
    /\ delpc = "delete"
    /\ \E outcome \in DbOutcomes :
          IF outcome = "rows"
             THEN /\ documents' = documents \ OwnDocument(delUser, delDocument)
                  /\ document_embeddings' =
                         IF OwnDocument(delUser, delDocument) # {}
                            THEN Cascade(document_embeddings, delDocument)
                            ELSE document_embeddings
                  /\ delResponse' = DeleteResponse(200)
             ELSE /\ UNCHANGED storeVars
                  /\ delResponse' = DeleteResponse(500)
    /\ delpc' = "done"
    /\ UNCHANGED <<delUser, delDocument>>
    /\ UNCHANGED <<chunkVars, sqlVars, dqVars, chatVars, extractVars>>
    /\ UNCHANGED <<embedVars, genVars, searchVars, uploadVars, authVars>>

DeleteNext == DeleteSelect \/ DeleteRemoveFile \/ DeleteRow

(***************************************************************************)
(* The opening of every route handler (app/api/chat/route.ts,              *)
(* app/api/documents/upload/route.ts, app/api/documents/route.ts,          *)
(* app/api/documents/similar/route.ts, api/documents/summarize): reading   *)
(* the request, the Authorization header, supabase.auth.getUser(token),    *)
(* and only then the work of the route.                                    *)
(***************************************************************************)

Routes == {"chat", "upload", "list", "delete", "similar", "summarize"}

\* The Authorization header: absent, a token the auth service refuses, or
\* a token of a user.
Credentials == {"none", "invalid", "valid"}

\* bodyReadable: request.json() / request.formData() resolves;
\* hasParam: the field or query parameter the route asks for is present.
Requests ==
    [bodyReadable : BOOLEAN, hasParam : BOOLEAN, credential : Credentials]

\* The routes that await request.json() or request.formData() first; GET and
\* DELETE of /api/documents read no body.
ReadsBody(r) == r \in {"chat", "upload", "similar", "summarize"}

\* The routes that return 400 for a missing field before they look at the
\* Authorization header; GET /api/documents asks for nothing.
RequiresParam(r) == r # "list"

\* What the handler does after the user is known.
RouteEffects(r) ==
    CASE r = "chat"      -> {"retrieval", "generation", "insert"}
      [] r = "upload"    -> {"file stored", "insert", "update", "generation"}
      [] r = "list"      -> {"retrieval"}
      [] r = "delete"    -> {"retrieval", "file removed", "delete"}
      [] r = "similar"   -> {"retrieval"}
      [] r = "summarize" -> {"retrieval", "generation"}

\* A variant of the auth service that takes every token for a user's.
GetUserOutcomesTrusting(credential) == {"user"}

\* supabase.auth.getUser(token): the user, an error, or a thrown exception.
GetUserOutcomes(credential) ==
    IF credential = "valid" THEN {"user", "throws"} ELSE {"error", "throws"}

NoAuthResponse == [status |-> 0, thrownBy |-> "(none)"]

\* NextResponse.json({ error: ... }, { status }); thrownBy names the call
\* whose exception the outer catch turned into the response.
AuthResponse(status, thrownBy) == [status |-> status, thrownBy |-> thrownBy]

AuthInit ==
    /\ route \in Routes
    /\ request \in Requests
    /\ verified = FALSE
    /\ effects = {}
    /\ authResponse = NoAuthResponse
    /\ authpc = "read"

\* No request is being answered.
AuthIdle ==
    /\ route = "chat"
    /\ request = [bodyReadable |-> TRUE, hasParam |-> TRUE, credential |-> "none"]
    /\ verified = FALSE
    /\ effects = {}
    /\ authResponse = NoAuthResponse
    /\ authpc = "idle"

\* await request.json() / request.formData() throws: the outer catch.
AuthReadThrows ==
    /\ authpc = "read"
    /\ ReadsBody(route)
    /\ ~request.bodyReadable
    /\ authResponse' = AuthResponse(500, "request")
    /\ authpc' = "done"
    /\ UNCHANGED <<route, request, verified, effects>>
    /\ UNCHANGED <<chunkVars, storeVars, sqlVars, dqVars, chatVars, extractVars>>
    /\ UNCHANGED <<embedVars, genVars, searchVars, uploadVars, deleteVars>>

\* if (!message) / if (!file) / if (!documentId) / if (!documentIds ...)
AuthMissingParam ==
    /\ authpc = "read"
    /\ ReadsBody(route) => request.bodyReadable
    /\ RequiresParam(route)
    /\ ~request.hasParam
    /\ authResponse' = AuthResponse(400, "(none)")
    /\ authpc' = "done"
    /\ UNCHANGED <<route, request, verified, effects>>
    /\ UNCHANGED <<chunkVars, storeVars, sqlVars, dqVars, chatVars, extractVars>>
    /\ UNCHANGED <<embedVars, genVars, searchVars, uploadVars, deleteVars>>

\* The request was read and has what the route asks for.
AuthRead ==
    /\ authpc = "read"
    /\ ReadsBody(route) => request.bodyReadable
    /\ RequiresParam(route) => request.hasParam
    /\ authpc' = "header"
    /\ UNCHANGED <<route, request, verified, effects, authResponse>>
    /\ UNCHANGED <<chunkVars, storeVars, sqlVars, dqVars, chatVars, extractVars>>
    /\ UNCHANGED <<embedVars, genVars, searchVars, uploadVars, deleteVars>>

\* if (!authorization) return ... { status: 401 }
AuthNoHeader ==
    /\ authpc = "header"
    /\ request.credential = "none"
    /\ authResponse' = AuthResponse(401, "(none)")
    /\ authpc' = "done"
    /\ UNCHANGED <<route, request, verified, effects>>
    /\ UNCHANGED <<chunkVars, storeVars, sqlVars, dqVars, chatVars, extractVars>>
    /\ UNCHANGED <<embedVars, genVars, searchVars, uploadVars, deleteVars>>

\* await supabase.auth.getUser(token); if (authError || !user) return 401
AuthGetUser ==
    /\ authpc = "header"
    /\ request.credential # "none"
    /\ \E outcome \in GetUserOutcomes(request.credential) :
          CASE outcome = "user" ->
                  /\ verified' = TRUE
                  /\ authResponse' = authResponse
                  /\ authpc' = "work"
            [] outcome = "error" ->
                  /\ verified' = verified
                  /\ authResponse' = AuthResponse(401, "(none)")
                  /\ authpc' = "done"
            [] outcome = "throws" ->
                  /\ verified' = verified
                  /\ authResponse' = AuthResponse(500, "getUser")
                  /\ authpc' = "done"
    /\ UNCHANGED <<route, request, effects>>
    /\ UNCHANGED <<chunkVars, storeVars, sqlVars, dqVars, chatVars, extractVars>>
    /\ UNCHANGED <<embedVars, genVars, searchVars, uploadVars, deleteVars>>

\* The rest of the handler, one of its calls at a time.
AuthWork ==
    /\ authpc = "work"
    /\ \E e \in RouteEffects(route) \ effects : effects' = effects \cup {e}
    /\ UNCHANGED <<route, request, verified, authResponse, authpc>>
    /\ UNCHANGED <<chunkVars, storeVars, sqlVars, dqVars, chatVars, extractVars>>
    /\ UNCHANGED <<embedVars, genVars, searchVars, uploadVars, deleteVars>>

\* The handler answers.
AuthAnswer ==
    /\ authpc = "work"
    /\ authResponse' = AuthResponse(200, "(none)")
    /\ authpc' = "done"
    /\ UNCHANGED <<route, request, verified, effects>>
    /\ UNCHANGED <<chunkVars, storeVars, sqlVars, dqVars, chatVars, extractVars>>
    /\ UNCHANGED <<embedVars, genVars, searchVars, uploadVars, deleteVars>>

AuthNext ==
    \/ AuthReadThrows
    \/ AuthMissingParam
    \/ AuthRead
    \/ AuthNoHeader
    \/ AuthGetUser
    \/ AuthWork
    \/ AuthAnswer

\* No provider call, search, upload or request is in progress.
ServicesIdle ==
    EmbedIdle /\ GenIdle /\ SearchIdle /\ UploadIdle /\ AuthIdle /\ DeleteIdle

(***************************************************************************)
(* The specifications.                                                     *)
(***************************************************************************)

InitChunk ==
    ChunkInit /\ StoreInit /\ SqlIdle /\ DqIdle /\ ChatIdle /\ ExtractIdle
    /\ ServicesIdle

InitHybrid ==
    ChunkIdle /\ StoreInit /\ SqlInit /\ DqIdle /\ ChatIdle /\ ExtractIdle
    /\ ServicesIdle

InitChatTurn ==
    ChunkIdle /\ StoreInit /\ SqlIdle /\ DqInit /\ ChatInit /\ ExtractIdle
    /\ ServicesIdle

InitExtract ==
    ChunkIdle /\ StoreInit /\ SqlIdle /\ DqIdle /\ ChatIdle /\ ExtractInit
    /\ ServicesIdle

InitEmbed ==
    ChunkIdle /\ StoreInit /\ SqlIdle /\ DqIdle /\ ChatIdle /\ ExtractIdle
    /\ EmbedInit /\ GenIdle /\ SearchIdle /\ UploadIdle /\ AuthIdle /\ DeleteIdle

InitGen ==
    ChunkIdle /\ StoreInit /\ SqlIdle /\ DqIdle /\ ChatIdle /\ ExtractIdle
    /\ EmbedIdle /\ GenInit /\ SearchIdle /\ UploadIdle /\ AuthIdle /\ DeleteIdle

InitRetry ==
    ChunkIdle /\ StoreInit /\ SqlIdle /\ DqIdle /\ ChatIdle /\ ExtractIdle
    /\ EmbedInit /\ etext = <<97>> /\ GenInit /\ SearchIdle /\ UploadIdle
    /\ AuthIdle /\ DeleteIdle

InitSearch ==
    ChunkIdle /\ StoreInit /\ SqlIdle /\ DqIdle /\ ChatIdle /\ ExtractIdle
    /\ EmbedIdle /\ GenIdle /\ SearchInit /\ UploadIdle /\ AuthIdle /\ DeleteIdle

InitUpload ==
    ChunkIdle /\ StoreInit /\ SqlIdle /\ DqIdle /\ ChatIdle /\ ExtractIdle
    /\ EmbedIdle /\ GenIdle /\ SearchIdle /\ UploadInit /\ AuthIdle /\ DeleteIdle

InitAuth ==
    ChunkIdle /\ StoreInit /\ SqlIdle /\ DqIdle /\ ChatIdle /\ ExtractIdle
    /\ EmbedIdle /\ GenIdle /\ SearchIdle /\ UploadIdle /\ AuthInit /\ DeleteIdle

InitDelete ==
    ChunkIdle /\ StoreInit /\ SqlIdle /\ DqIdle /\ ChatIdle /\ ExtractIdle
    /\ EmbedIdle /\ GenIdle /\ SearchInit /\ UploadIdle /\ AuthIdle /\ DeleteInit

InitUploadDelete ==
    ChunkIdle /\ StoreInit /\ SqlIdle /\ DqIdle /\ ChatIdle /\ ExtractIdle
    /\ EmbedIdle /\ GenIdle /\ SearchIdle /\ UploadInit /\ AuthIdle /\ DeleteInit

\* chunkText on every explored input.
SpecChunk == InitChunk /\ [][ChunkNext]_vars

\* One call of the SQL function search_documents.
SpecHybrid == InitHybrid /\ [][SqlNext]_vars

\* One chat turn: decomposition, the searches, the reply.
SpecChat == InitChatTurn /\ [][ChatNext]_vars

\* extractTextFromFile on every explored file.
SpecExtract == InitExtract /\ [][ExtractNext]_vars

\* generateEmbedding on every explored text.
SpecEmbed == InitEmbed /\ [][EmbedNext]_vars

\* One call of generateChatResponse.
SpecGen == InitGen /\ [][GenNext]_vars

\* The two copies of retryWithBackoff, each under its caller.
SpecRetry == InitRetry /\ [][EmbedNext \/ GenNext]_vars

\* One call of searchSimilarDocuments.
SpecSearch == InitSearch /\ [][SearchNext]_vars

\* One upload request of a verified user.
SpecUpload == InitUpload /\ [][UploadNext]_vars

\* The opening of one request to any route.
SpecAuth == InitAuth /\ [][AuthNext]_vars

\* One delete request, and one search at any moment before or after it.
SpecDelete == InitDelete /\ [][DeleteNext \/ SearchNext]_vars

\* One upload request and one delete request, their steps interleaved.
SpecUploadDelete == InitUploadDelete /\ [][UploadNext \/ DeleteNext]_vars

(***************************************************************************)
(* The claims.                                                             *)
(***************************************************************************)

\* The contract of the chunking engine: 0 <= overlap < maxLength, text not empty.
ChunkContract == Len(text) > 0 /\ 0 <= overlap /\ overlap < maxLength

\* C1: for a non-empty text and 0 <= overlap < maxLength, every iteration of
\* the loop either ends the loop or strictly increases the start offset,
\* which stays below the length of the text: the loop runs at most
\* text.length times and chunkText terminates.
C1_StartStrictlyIncreases ==
    [][(cpc = "loop" /\ ChunkContract)
          => (cpc' # "loop" \/ (start' > start /\ start' < Len(text)))]_vars

C1_Witness ==
    /\ cpc = "done"
    /\ ChunkContract
    /\ Len(chunkResult) >= 3
    /\ overlap > 0

\* C2: for a non-empty text and 0 <= overlap < maxLength, the windows that
\* chunkText emitted cover the text without gaps: the first starts at 0,
\* the last ends at text.length, each starts at or before the end of the
\* one before, every offset lies in a window, and each chunk's content is
\* the slice of its window.
C2_WindowsCoverText ==
    (cpc = "done" /\ ChunkContract) =>
        /\ Len(windows) >= 1
        /\ Len(chunkResult) = Len(windows)
        /\ windows[1][1] = 0
        /\ Last(windows)[2] = Len(text)
        /\ \A i \in 2..Len(windows) : windows[i][1] <= windows[i - 1][2]
        /\ \A off \in 0..(Len(text) - 1) :
              \E i \in 1..Len(windows) :
                  windows[i][1] <= off /\ off < windows[i][2]
        /\ \A i \in 1..Len(windows) :
              chunkResult[i].content = Slice(text, windows[i][1], windows[i][2])

C2_Witness ==
    /\ cpc = "done"
    /\ ChunkContract
    /\ Len(windows) >= 2
    /\ overlap = 0
    /\ Len(text) = MaxTextLen

ChunkLengths == [i \in 1..Len(chunkResult) |-> Len(chunkResult[i].content)]

ExampleCallDone ==
    /\ cpc = "done"
    /\ text = ExampleText
    /\ maxLength = 1000
    /\ overlap = 200

\* C3 (as amended): chunkText applied to a 2500-character text with
\* maxLength 1000 and overlap 200 yields exactly 3 chunks, of lengths
\* 1000, 1000 and 900 (windows [0,1000), [800,1800), [1600,2500)).
C3_ExampleLengths ==
    ExampleCallDone =>
        /\ ChunkLengths = <<1000, 1000, 900>>
        /\ windows = <<(<<0, 1000>>), (<<800, 1800>>), (<<1600, 2500>>)>>

C3_Witness == ExampleCallDone /\ Len(chunkResult) = 3

\* C3 (as stated): the three chunks have lengths 1000, 1000 and 700.
C3_Original == ExampleCallDone => ChunkLengths = <<1000, 1000, 700>>

\* The ids of the rows of the two sets the call has computed.
VectorIds ==
    {r.id : r \in SeqToSet(vector_search(similarity, user_id, match_threshold,
                                          match_count))}
KeywordIds ==
    {r.id : r \in SeqToSet(keyword_search(user_id, match_count, keyword_query))}

OutPositions(id) == {i \in DOMAIN searchOut : searchOut[i].id = id}

\* C7 (as stated): a chunk that is in the vector set and in the keyword set
\* appears at most once in the merged output (exactly once when nothing was
\* cut off by the limit), with the higher of its cosine similarity and 0.7.
C7_Original ==
    spc = "done" =>
        \A id \in VectorIds \cap KeywordIds :
            /\ Cardinality(OutPositions(id)) <= 1
            /\ \A i \in OutPositions(id) :
                  searchOut[i].similarity = Max(similarity[id], KeywordSimilarity)
            /\ Cardinality(combined_results(similarity, user_id, match_threshold,
                                            match_count, keyword_query)) <= match_count
                  => Cardinality(OutPositions(id)) = 1

\* C8: the merged output of the hybrid search is sorted by similarity in
\* non-increasing order and has at most match_count rows.
C8_SortedAndLimited ==
    spc = "done" =>
        /\ Len(searchOut) <= match_count
        /\ \A i, j \in DOMAIN searchOut :
              i < j => searchOut[i].similarity >= searchOut[j].similarity

\* A call whose output mixes a vector-only and a keyword-only match and was
\* cut off by the limit.
C8_Witness ==
    /\ spc = "done"
    /\ \E i \in DOMAIN searchOut : searchOut[i].id \in VectorIds \ KeywordIds
    /\ \E i \in DOMAIN searchOut : searchOut[i].id \in KeywordIds \ VectorIds
    /\ Cardinality(combined_results(similarity, user_id, match_threshold,
                                    match_count, keyword_query)) > match_count
    /\ Len(searchOut) = match_count
    /\ \E i, j \in DOMAIN searchOut : searchOut[i].similarity > searchOut[j].similarity

\* The model call of the turn gave text that parses to a non-empty JSON list.
WellFormedList ==
    /\ responseText # NoResponse
    /\ ~responseText.blocked
    /\ ParseJSON(CleanedResponseText(responseText.tokens)).kind = "array"
    /\ ParseJSON(CleanedResponseText(responseText.tokens)).items # <<>>

\* C4: decomposeQuery never raises and returns a list of length >= 1 for
\* every outcome of the model call: until it has returned it can always take
\* a step, and what it returns is not empty; when the call failed, text()
\* threw, or the text is no JSON, no list or an empty list, the result is
\* exactly [query].
C4_DecomposeFloor ==
    /\ dqpc \in {"call", "parse", "catch"} => ENABLED DqNext
    /\ dqpc = "done" =>
          /\ Len(decomposedQueries) >= 1
          /\ ~WellFormedList => decomposedQueries = <<message>>

\* A turn whose model call succeeded after a retry with text that is no JSON.
C4_Witness ==
    /\ dqpc = "done"
    /\ attempt > 0
    /\ responseText.tokens = <<"Sure:", "[", "str:q1", "]">>
    /\ decomposedQueries = <<message>>

\* C5 (as stated): the Decomposed Query Set of a chat turn always contains
\* the original user query.
C5_Original ==
    dqpc = "done" => message \in SeqToSet(decomposedQueries)

\* C5 (as amended): the Decomposed Query Set of a chat turn is never empty;
\* it contains the original query whenever the model call failed or its
\* response was not a non-empty JSON list; when the model returns a
\* well-formed non-empty list the set is that list as returned.
C5_FloorOnlyOnFailure ==
    dqpc = "done" =>
        /\ decomposedQueries # <<>>
        /\ IF WellFormedList
              THEN decomposedQueries =
                       ParseJSON(CleanedResponseText(responseText.tokens)).items
              ELSE message \in SeqToSet(decomposedQueries)

\* A turn whose model call returned a well-formed list without the query.
C5_Witness ==
    /\ chatpc = "search"
    /\ dqpc = "done"
    /\ WellFormedList
    /\ message \notin SeqToSet(decomposedQueries)

NoDuplicateChunks(docs) ==
    \A i, j \in DOMAIN docs :
        (docs[i].document_id = docs[j].document_id
            /\ docs[i].content = docs[j].content) => i = j

\* C6 (as stated): in every chat turn the chunk list handed to answer
\* synthesis, and returned as sources, has no two entries with the same
\* (document_id, content).
C6_Original ==
    /\ chatpc \in {"context", "done"} => NoDuplicateChunks(relevantDocuments)
    /\ chatpc = "done" => NoDuplicateChunks(sources)

\* The formats whose extractor fetches and parses the file.
FetchingTypes == FileTypes \ {PPTX, JPEG, PNG}

\* The extractor of the file's format cannot read it: the fetch failed, or
\* the parser rejected the bytes.
ExtractorFails == file.type \in FetchingTypes /\ (~file.fetchOk \/ ~file.parseOk)

\* C9 (as stated): for every declared media type and every fetched file
\* content the extraction ends with at least one chunk.
C9_Original ==
    (expc \in {"returned", "raised"} /\ file.fetchOk /\ file.parseOk) =>
        /\ expc = "returned"
        /\ Len(extracted) >= 1

\* C10 (as stated): for every media type, when the format's extractor fails,
\* extractTextFromFile returns exactly one chunk with processingStatus
\* "failed" and does not raise.
C10_Original ==
    (expc \in {"returned", "raised"} /\ ExtractorFails) =>
        /\ expc = "returned"
        /\ Len(extracted) = 1
        /\ extracted[1].processingStatus = "failed"

\* The response held an array, or an array in an array, of at least one
\* number.
ProviderGaveVector ==
    /\ eresponse \in HfResponses
    /\ eresponse.kind \in {"vector", "nested"}
    /\ eresponse.dim > 0

\* C11: generateEmbedding never raises and always returns a labelled vector;
\* the label is "fallback" exactly when the vector is the one of
\* generateDeterministicEmbedding, which happens after the provider call
\* failed for good or answered without a non-empty vector, and it is
\* "huggingface" with the provider's vector otherwise.
C11_LabelledVector ==
    /\ epc \in {"call", "check", "catch"} => ENABLED EmbedNext
    /\ epc = "done" =>
          /\ eresult.model \in {"fallback", "huggingface"}
          /\ eresult.model = "fallback" <=> ~ProviderGaveVector
          /\ eresult.model = "fallback" =>
                eresult.embedding = generateDeterministicEmbedding(etext)
          /\ eresult.model = "huggingface" =>
                eresult.embedding = PrimaryVector(EmbeddingDim)

\* The third attempt failed and the fallback vector was returned.
C11_Witness ==
    /\ epc = "done"
    /\ Len(estatuses) = HfMaxRetries
    /\ eresult.model = "fallback"

\* The statuses after which retryWithBackoff tries again.
RetryableStatuses == {429, 500, 503}

\* What one run of retryWithBackoff has done so far: calls invocations of
\* the wrapped function, of which the failed ones had the given statuses;
\* the loop is about to invoke again (pending), has returned a result
\* (succeeded), or has thrown the last error (propagated).
RetryDiscipline(calls, statuses, pending, succeeded, propagated) ==
    /\ calls <= 3
    /\ \A k \in 1..(Len(statuses) - 1) : statuses[k] \in RetryableStatuses
    /\ pending =>
          /\ calls = Len(statuses)
          /\ calls < 3
          /\ \A k \in 1..Len(statuses) : statuses[k] \in RetryableStatuses
    /\ succeeded => calls = Len(statuses) + 1
    /\ propagated =>
          /\ calls = Len(statuses)
          /\ calls >= 1
          /\ calls = 3 \/ statuses[calls] \notin RetryableStatuses

\* C12: retryWithBackoff, in lib/embeddings.ts and in lib/gemini.ts, invokes
\* the wrapped call at most 3 times; it invokes it again only after a
\* failure with status 429, 500 or 503; a failure with another status, or
\* on the third attempt, propagates right after that attempt and no other
\* failure propagates; a success on attempt k comes after exactly k
\* invocations.
C12_RetryDiscipline ==
    /\ RetryDiscipline(ecalls, estatuses, epc = "call",
                       eresponse # NoHfResponse,
                       epc \in {"catch", "done"} /\ eresponse = NoHfResponse)
    /\ RetryDiscipline(gcalls, gstatuses, gpc = "call",
                       gresponse # NoGenResponse,
                       gpc \in {"catch", "done"} /\ gresponse = NoGenResponse)

\* The embedding call succeeded on its third attempt, and the generation
\* call failed once with a status that is not retried.
C12_Witness ==
    /\ ecalls = 3
    /\ eresponse # NoHfResponse
    /\ gcalls = 1
    /\ gpc = "catch"
    /\ gstatuses = <<400>>

\* generateEmbedding returned the vector of generateDeterministicEmbedding.
FallbackReturned == epc = "done" /\ eresult.model = "fallback"

\* C13 (as stated): for every non-empty text the vector of the fallback
\* embedding function has Euclidean norm 1 and is not the all-zero vector.
C13_Original ==
    (FallbackReturned /\ Len(etext) > 0) =>
        /\ HasUnitNorm(eresult.embedding)
        /\ ~IsZeroVector(eresult.embedding)

\* Some code unit of the text is not NUL (U+0000), whose sine is 0.
HasNonNul(t) == \E i \in DOMAIN t : t[i] # 0

\* C13: for every text with at least one code unit other than NUL the
\* vector of the fallback embedding function has Euclidean norm 1; for the
\* empty text and for a text of NUL code units only it is the all-zero
\* vector, of 384 components in both cases.
C13_UnitNormUnlessNul ==
    FallbackReturned =>
        /\ eresult.embedding.dim = EmbeddingDim
        /\ HasNonNul(etext) =>
              /\ HasUnitNorm(eresult.embedding)
              /\ ~IsZeroVector(eresult.embedding)
        /\ ~HasNonNul(etext) => IsZeroVector(eresult.embedding)

\* The fallback vector of "ba", whose two code units add to one component.
C13_Witness ==
    /\ FallbackReturned
    /\ etext = <<98, 97>>
    /\ DOMAIN eresult.embedding.at = {98}
    /\ HasUnitNorm(eresult.embedding)

\* The chunk rows the upload request has persisted.
UploadedChunkRows == {row \in document_embeddings : row.document_id = NewDocumentId}

\* C14 (as stated): every vector that storeDocumentEmbeddings persists, from
\* the provider or from the fallback, has the one length that the chunk
\* table, the document-embedding column and the search function declare.
C14_Original ==
    \A row \in UploadedChunkRows :
        /\ row.embedding.dim = columnDim
        /\ row.embedding.dim = DocumentEmbeddingDim
        /\ row.embedding.dim = HybridQueryDim

\* The call of searchSimilarDocuments has ended.
SearchEnded == searchpc \in {"returned", "raised"}

\* The hybrid search query failed, or gave zero rows.
HybridGaveNothing ==
    \/ searchCall.rpc \in {"error", "reject"}
    \/ /\ searchCall.rpc = "rows"
       /\ searchCall.check # "reject"
       /\ Len(search_documents(searchCall.sim, searchCall.userId, 0,
                               searchCall.limit, searchCall.keyword)) = 0

\* C15 (as stated): whenever the hybrid search query fails or returns zero
\* rows while the owner has a stored chunk, and the datastore answers the
\* query for the recent chunks, searchSimilarDocuments returns a non-empty
\* list of chunks of that owner, each with similarity 0.5; this includes the
\* case where the preliminary ownership check returned an error.
C15_Original ==
    (/\ SearchEnded
     /\ HybridGaveNothing
     /\ searchCall.check \in {"rows", "error"}
     /\ searchCall.fallback = "rows"
     /\ OwnedEmbeddings(searchCall.userId) # {}) =>
        /\ ~searchResult.raised
        /\ Len(searchResult.rows) > 0
        /\ \A i \in DOMAIN searchResult.rows :
              /\ searchResult.rows[i].similarity = MockSimilarity
              /\ \E de \in OwnedEmbeddings(searchCall.userId) :
                    de.id = searchResult.rows[i].id

\* C16 (as stated): searchSimilarDocuments never raises to its caller,
\* whichever of its datastore calls fails or rejects; it ends by returning
\* a list.
C16_Original ==
    SearchEnded =>
        /\ searchpc = "returned"
        /\ ~searchResult.raised

\* The language-model call failed for good, or the text of its response
\* could not be read.
GenFailed == gresponse = NoGenResponse \/ gresponse.blocked

\* C17: generateChatResponse never raises and always returns text: the text
\* of the response when the call succeeded, and otherwise the text chosen
\* by the status of the final error, with four pairwise distinct texts for
\* 503, 429, 400 and every other failure.
C17_AlwaysText ==
    /\ gpc \in {"call", "text", "catch"} => ENABLED GenNext
    /\ Cardinality({OverloadedReply, RateLimitedReply, MalformedReply,
                    GenericReply}) = 4
    /\ gpc = "done" =>
          /\ greply.text # NoReply.text
          /\ greply.fallback <=> GenFailed
          /\ ~greply.fallback => greply.text = gresponse.text
          /\ greply.fallback =>
                /\ gerror = 503 => greply.text = OverloadedReply
                /\ gerror = 429 => greply.text = RateLimitedReply
                /\ gerror = 400 => greply.text = MalformedReply
                /\ gerror \notin {503, 429, 400} => greply.text = GenericReply

\* The third attempt failed with 503 and the overloaded text was returned.
C17_Witness ==
    /\ gpc = "done"
    /\ gcalls = 3
    /\ gerror = 503
    /\ greply = [fallback |-> TRUE, text |-> OverloadedReply]

\* The status of the uploaded Document; "(absent)" before its row exists.
UploadedStatus ==
    IF UploadedRows = {} THEN "(absent)"
    ELSE (CHOOSE d \in UploadedRows : TRUE).status

\* C18: the Document is created with status processing; every later change
\* of its status goes from processing to completed or from processing to
\* error, so the status changes at most once after creation and a completed
\* or error Document keeps its status to the end of the upload request.
C18_StatusLifecycle ==
    [][UploadedStatus' # UploadedStatus =>
          \/ UploadedStatus = "(absent)" /\ UploadedStatus' = "processing"
          \/ /\ UploadedStatus = "processing"
             /\ UploadedStatus' \in {"completed", "error"}]_vars

\* The update to completed failed and the Document was marked error; the
\* request has answered.
C18_Witness ==
    /\ uppc = "done"
    /\ upError = "update"
    /\ UploadedStatus = "error"

\* C19 (as stated): when the write of the chunk embeddings, or the final
\* update of the Document, failed during ingestion, the request ends with
\* the Document's status set to error, the failure detail in its summary,
\* and a success response.
C19_Original ==
    (uppc = "done" /\ upError \in {"insert", "update"}) =>
        /\ UploadedStatus = "error"
        /\ \A d \in UploadedRows : d.summary = upError
        /\ upResponse.success
        /\ upResponse.status = 200

\* The request carries no credential, or one the auth service refuses.
BadCredential == request.credential # "valid"

\* The request lacks the field the route checks before the credential.
ParamMissing ==
    /\ RequiresParam(route)
    /\ ~request.hasParam
    /\ ReadsBody(route) => request.bodyReadable

\* C20 (as stated): a request with a missing or invalid credential is always
\* answered 401, and nothing is stored, written, retrieved or generated
\* for it.
C20_Original ==
    BadCredential =>
        /\ effects = {}
        /\ ~verified
        /\ authpc = "done" => authResponse.status = 401

\* C20: in every route, no file is stored, no row is written and no
\* retrieval or generation call is made before the token has been verified;
\* a request with a missing or invalid credential is never verified and is
\* always answered with an explicit failure: 400 when the field the route
\* requires is missing (checked before the credential in every route but
\* the document list), 500 when reading the request or the verification
\* call throws, and 401 otherwise.
C20_RejectedBeforeWork ==
    /\ effects # {} => verified
    /\ verified => request.credential = "valid"
    /\ BadCredential =>
          /\ effects = {}
          /\ authpc # "work"
          /\ authpc \in {"read", "header"} => ENABLED AuthNext
          /\ authpc = "done" =>
                /\ authResponse.status \in {400, 401, 500}
                /\ authResponse.status = 400 <=> ParamMissing
                /\ authResponse.status = 500 =>
                      authResponse.thrownBy \in {"request", "getUser"}
                /\ authResponse.thrownBy = "request" <=>
                      (ReadsBody(route) /\ ~request.bodyReadable)

\* A delete request with a refused token was answered 401 and nothing was
\* touched.
C20_Witness ==
    /\ route = "delete"
    /\ request.credential = "invalid"
    /\ authpc = "done"
    /\ authResponse.status = 401
    /\ effects = {}

\* The upload request has answered success and no step of the ingestion
\* failed.
IngestionSucceeded ==
    /\ uppc = "done"
    /\ upResponse.success
    /\ upError = NoError

\* C21 (as stated): uploading a plain-text file of two paragraphs separated
\* by a blank line, through the upload component or with the file's text as
\* extractedText, ends with exactly 2 persisted chunks of the Document, each
\* with an embedding, and the Document completed.
C21_Original ==
    (/\ IngestionSucceeded
     /\ upFile.type = PLAIN
     /\ upFile.text = TwoParagraphs
     /\ extractedText \in {OnDropExtractedText(upFile), TextOf(upFile.text)}) =>
        /\ Cardinality(UploadedChunkRows) = 2
        /\ \A row \in UploadedChunkRows : row.embedding.dim > 0
        /\ UploadedStatus = "completed"

\* The chunk of a result row holds the words of the question.
HoldsQuestion(row) == ILikeContains(row.content, QueryText(message))

\* The chat turn searched for the question itself and the hybrid search
\* gave every row of the context (no row has the mock similarity of the
\* fallbacks).
HybridAnswered ==
    /\ chatpc = "done"
    /\ decomposedQueries = <<message>>
    /\ relevantDocuments # <<>>
    /\ \A i \in DOMAIN relevantDocuments :
          relevantDocuments[i].similarity # MockSimilarity

\* C22 (as stated): in a chat turn whose question is a phrase that occurs
\* verbatim in one stored chunk and not in another, the chunk with the
\* phrase is among the results and ranked above every chunk without it,
\* whatever the similarities of the embeddings are.
C22_Original ==
    (HybridAnswered /\ message = "q0") =>
        \E j \in DOMAIN relevantDocuments :
            /\ HoldsQuestion(relevantDocuments[j])
            /\ \A i \in DOMAIN relevantDocuments :
                  ~HoldsQuestion(relevantDocuments[i]) => j < i

\* The delete request answered success; the owner is the user of the
\* request, since the route selects the Document by id and user_id first.
DeleteSucceeded == delpc = "done" /\ delResponse.success

\* The rows name no chunk of the Document.
NoRowsOf(id, rows) == \A i \in DOMAIN rows : rows[i].document_id # id

\* C23: after a Document was deleted by its owner, its row and every chunk
\* row of it are gone, and a search made from then on, by the hybrid query
\* or by either fallback, returns no chunk of it.
C23_DeletedChunksGone ==
    DeleteSucceeded =>
        /\ \A d \in documents : d.id # delDocument
        /\ \A de \in document_embeddings : de.document_id # delDocument
        /\ searchpc = "call" => NoRowsOf(delDocument, SearchOutcome.rows)

\* User u1 deleted Document d1, and a search of u1 made afterwards returned
\* the chunk of the user's other Document.
C23_Witness ==
    /\ DeleteSucceeded
    /\ delUser = "u1"
    /\ delDocument = "d1"
    /\ searchpc = "returned"
    /\ searchCall.userId = "u1"
    /\ Len(searchResult.rows) = 1
    /\ searchResult.rows[1].document_id = "d2"

\* The text an extractor splits, as the file holds it: an HTML file's text
\* with every tag replaced by a space, any other file's text as it is.
ExtractedFullText(f) ==
    IF f.type = HTML
        THEN [i \in DOMAIN f.text |-> IF f.text[i] = "TAG" THEN " " ELSE f.text[i]]
        ELSE f.text

\* The position of the last newline of the run of newlines that starts at i.
NewlineRunEnd(s, i) ==
    CHOOSE j \in i..Len(s) :
        /\ \A k \in i..j : s[k] = "\n"
        /\ (j = Len(s) \/ s[j + 1] # "\n")

RECURSIVE BlankLineSplitFrom(_, _, _)
BlankLineSplitFrom(s, i, pieceStart) ==
    IF i > Len(s) THEN <<SubSeq(s, pieceStart, Len(s))>>
    ELSE IF s[i] = "\n" /\ NewlineRunEnd(s, i) > i
        THEN <<SubSeq(s, pieceStart, i - 1)>>
                 \o BlankLineSplitFrom(s, NewlineRunEnd(s, i) + 1,
                                       NewlineRunEnd(s, i) + 1)
        ELSE BlankLineSplitFrom(s, i + 1, pieceStart)

\* The sections of a text: its pieces between runs of two or more newlines
\* that are not whitespace only.
BlankLineSections(s) == SelectSeq(BlankLineSplitFrom(s, 1, 1), HasText)

ParagraphTypes == {PDF, DOCX, HTML, PLAIN}

\* A paragraph-splitting extractor returned its chunks for a file it could
\* read.
ParagraphsExtracted ==
    /\ expc = "returned"
    /\ file.type \in ParagraphTypes
    /\ file.fetchOk
    /\ file.parseOk

\* C24: a paragraph-splitting extractor (PDF, DOCX, HTML, plain text) given
\* a text of k >= 1 sections that are not whitespace only, separated by
\* blank lines, returns exactly k chunks, and the chunks carry the section
\* numbers 1..k in order.
C24_Original ==
    (ParagraphsExtracted /\ Len(BlankLineSections(ExtractedFullText(file))) >= 1)
        => /\ Len(extracted) = Len(BlankLineSections(ExtractedFullText(file)))
           /\ \A i \in DOMAIN extracted : extracted[i].section.n = i

\* A row serialized as key: value pairs, keyed by the column headers and
\* joined by commas.
KeyValueContent(header, row) ==
    Join([k \in 1..(IF Len(header) < Len(row) THEN Len(header) ELSE Len(row)) |->
             <<header[k], ": ", row[k]>>], ", ")

RowHasCells(row) == Len(row) > 0

\* The contents expected of one sheet: its first row holds the column
\* headers, every later row that has cells is a data row.
SheetDataContents(sheet) ==
    IF sheet.rows = <<>> THEN <<>>
    ELSE LET data == SelectSeq(Tail(sheet.rows), RowHasCells)
         IN  [i \in DOMAIN data |-> KeyValueContent(sheet.rows[1], data[i])]

RECURSIVE WorkbookDataContents(_)
WorkbookDataContents(sheets) ==
    IF sheets = <<>> THEN <<>>
    ELSE SheetDataContents(sheets[1]) \o WorkbookDataContents(Tail(sheets))

\* The contents expected of a row-oriented file.
DataRowContents(f) ==
    IF f.type = CSV
        THEN [i \in DOMAIN f.rows |-> KeyValueContent(f.header, f.rows[i])]
        ELSE WorkbookDataContents(f.sheets)

\* C25: for a CSV file and for a spreadsheet, the extractor returns exactly
\* one chunk per data row, none for the header row, and the content of each
\* chunk is the row as key: value pairs keyed by the column headers and
\* joined by commas.
C25_Original ==
    (expc = "returned" /\ file.type \in {CSV, XLSX})
        => /\ Len(extracted) = Len(DataRowContents(file))
           /\ \A i \in DOMAIN extracted : extracted[i].content = DataRowContents(file)[i]

\* A search of the chat turn threw: the loop was left before its last
\* sub-query was done.
ChatSearchFailed ==
    chatpc \in {"context", "done"} /\ queryIndex <= Len(decomposedQueries)

\* C26: when the search of any sub-query throws during a chat turn, the
\* answer is made with an empty context: the chunks passed to
\* generateChatResponse and the sources returned are empty, whatever the
\* sub-queries before the failure returned.
C26_Original ==
    (chatpc = "done" /\ ChatSearchFailed)
        => (documentChunks = <<>> /\ sources = <<>>)

\* C27: searchSimilarDocuments(query, userId, limit) returns at most limit
\* rows on every path: the hybrid result, the fallback after an error of the
\* hybrid query, the fallback after zero rows, and the recent chunks after
\* an exception.
C27_Original ==
    searchpc = "returned" => Len(searchResult.rows) <= searchCall.limit

\* C28: the status that the success response of the upload route reports
\* for the Document is the status of the Document's row at the time the
\* response is returned: completed only when ingestion completed, error
\* when ingestion failed.
C28_Original ==
    (uppc = "done" /\ upResponse.success)
        => upResponse.documentStatus = UploadedStatus

\* Every chunk row names the id of a row of documents.
NoOrphanChunks ==
    \A de \in document_embeddings : \E d \in documents : d.id = de.document_id

\* The delete request removed the Document that the upload request created.
UploadedDocumentDeleted ==
    DeleteSucceeded /\ delDocument = NewDocumentId /\ upDocument = NewDocumentId

\* C29: under every interleaving of the steps of an upload request with a
\* delete request for the Document it creates, no chunk row exists whose
\* Document row does not exist, and once the Document was deleted its row is
\* not created again and no chunk row of it is left, up to the end of both
\* requests.
C29_NoOrphansUnderDelete ==
    /\ NoOrphanChunks
    /\ UploadedDocumentDeleted =>
          /\ UploadedRows = {}
          /\ UploadedChunkRows = {}

\* The Document was deleted after its row was created and before its chunk
\* rows were inserted: the insert was refused and the upload request ended.
C29_Witness ==
    /\ UploadedDocumentDeleted
    /\ uppc = "done"
    /\ upEmbeddings # <<>>
    /\ upError = "insert"
    /\ columnDim = EmbeddingDim

\* The Document was deleted after its chunk rows were inserted.
C29_WitnessCascade ==
    /\ UploadedDocumentDeleted
    /\ uppc = "done"
    /\ upStored # <<>>

\* The chunk rows of the Document hold the chunks of chunkText, one row per
\* chunk, in chunk-index order.
ChunkRowsMatch(chunked) ==
    /\ Cardinality(UploadedChunkRows) = Len(chunked)
    /\ Len(upStored) = Len(chunked)
    /\ \A i \in DOMAIN upStored :
          /\ upStored[i] \in UploadedChunkRows
          /\ upStored[i].content = chunked[i].content

\* C30: ingestion is all-or-nothing with respect to chunks: when the upload
\* request ends with the Document in status error no chunk row of it is
\* persisted, and when it ends with the Document completed the persisted
\* chunk rows are the chunks of chunkText, as many and in chunk-index order.
C30_Original ==
    uppc = "done" =>
        /\ UploadedStatus = "error" => UploadedChunkRows = {}
        /\ UploadedStatus = "completed" => ChunkRowsMatch(upChunks)

====
